---------------------------- MODULE Spec2Model ----------------------------
(***************************************************************************)
(* imt(4): MS Windows 7/8/10 compatible I2C HID multi-touch driver.        *)
(*                                                                         *)
(* The module models src/imt.c: the descriptor analysis (wmt_hid_parse,    *)
(* wmt_hid_report_size), the attach path (imt_probe, imt_attach,           *)
(* wmt_cont_max_parse, imt_set_input_mode) and the interrupt-path report   *)
(* decoder (imt_intr) with its hybrid-delivery counter.                    *)
(*                                                                         *)
(* A report descriptor is a sequence of tokens; hid_get_item turns it      *)
(* into the item stream the driver walks.  An input report is a report id  *)
(* plus a buffer, a function from bit position to the value stored there.  *)
(***************************************************************************)
EXTENDS Integers, Sequences, FiniteSets, TLC

VARIABLES
    dev,    \* the device the driver is offered
    phase,  \* newbus lifecycle: "probe", "attach", "run", "rejected", "detached"
    sc,     \* struct imt_softc
    ev,     \* the evdev device: per-slot tracking ids (the event sink's state)
    last,   \* observation of the last imt_intr call
    fr,     \* observation of the current hybrid frame
    prev,   \* the in-range value transmitted by the call before the last
    pr,     \* observation of the wmt_hid_parse calls made by probe and attach
    at,     \* observation of the imt_attach call and of the refinements
    sz      \* observation of the last wmt_hid_report_size call

vars == <<dev, phase, sc, ev, last, fr, prev, pr, at, sz>>

---------------------------------------------------------------------------
(* Program constants                                                       *)

MAX_MT_SLOTS == 16
WMT_BSIZE == 1024

WMT_TIP_SWITCH == 0
WMT_SLOT == 0
WMT_WIDTH == 1
WMT_MAJOR == 1
WMT_HEIGHT == 2
WMT_MINOR == 2
WMT_ORIENTATION == 3
WMT_X == 4
WMT_Y == 5
WMT_CONTACTID == 6
WMT_PRESSURE == 7
WMT_IN_RANGE == 8
WMT_CONFIDENCE == 9
WMT_TOOL_X == 10
WMT_TOOL_Y == 11
WMT_N_USAGES == 12

HUD_TOUCHSCREEN == 4
HUD_TOUCHPAD == 5

IMT_INPUT_MODE_MT_TOUCHPAD == 3

EINVAL == 22
ENXIO == 6

Usages == 0 .. (WMT_N_USAGES - 1)

\* wmt_hid_map: HID usage, evdev event code and required flag per channel.
wmt_hid_map ==
    [u \in Usages |->
        CASE u = WMT_TIP_SWITCH ->
                [usage |-> "HUD_TIP_SWITCH", code |-> "ABS_MT_SLOT", required |-> TRUE]
          [] u = WMT_WIDTH ->
                [usage |-> "HUD_WIDTH", code |-> "ABS_MT_TOUCH_MAJOR", required |-> FALSE]
          [] u = WMT_HEIGHT ->
                [usage |-> "HUD_HEIGHT", code |-> "ABS_MT_TOUCH_MINOR", required |-> FALSE]
          [] u = WMT_ORIENTATION ->
                [usage |-> "WMT_NO_USAGE", code |-> "ABS_MT_ORIENTATION", required |-> FALSE]
          [] u = WMT_X ->
                [usage |-> "HUG_X", code |-> "ABS_MT_POSITION_X", required |-> TRUE]
          [] u = WMT_Y ->
                [usage |-> "HUG_Y", code |-> "ABS_MT_POSITION_Y", required |-> TRUE]
          [] u = WMT_CONTACTID ->
                [usage |-> "HUD_CONTACTID", code |-> "ABS_MT_TRACKING_ID", required |-> TRUE]
          [] u = WMT_PRESSURE ->
                [usage |-> "HUD_TIP_PRESSURE", code |-> "ABS_MT_PRESSURE", required |-> FALSE]
          [] u = WMT_IN_RANGE ->
                [usage |-> "HUD_IN_RANGE", code |-> "ABS_MT_DISTANCE", required |-> FALSE]
          [] u = WMT_CONFIDENCE ->
                [usage |-> "HUD_CONFIDENCE", code |-> "WMT_NO_CODE", required |-> FALSE]
          [] u = WMT_TOOL_X ->
                [usage |-> "HUG_X", code |-> "ABS_MT_TOOL_X", required |-> FALSE]
          [] OTHER ->
                [usage |-> "HUG_Y", code |-> "ABS_MT_TOOL_Y", required |-> FALSE]]

\* USAGE_SUPPORTED(caps, usage): caps is the set of the bits set in the mask.
USAGE_SUPPORTED(caps, usage) == usage \in caps

Min(a, b) == IF a < b THEN a ELSE b
Max(a, b) == IF a > b THEN a ELSE b

---------------------------------------------------------------------------
(* The descriptor item stream                                              *)

ZeroLoc == [pos |-> 0, size |-> 0, count |-> 0]
ZeroAbsinfo == [min |-> 0, max |-> 0, res |-> 0]

\* hid_start_parse / hid_get_item with kindset 1 << k: collections and end
\* collections are always returned, a data item only when its kind is k.  An
\* item carries the collection level at the time it is returned; an end
\* collection at level 0 ends the parse.  hid_get_item takes the parser
\* state a over token t.
hid_get_item(k, a, t) ==
    IF ~a.live THEN a
    ELSE CASE t.kind = "collection" ->
                [a EXCEPT !.lvl = @ + 1,
                          !.acc = Append(@, [t EXCEPT !.collevel = a.lvl + 1])]
           [] t.kind = "endcollection" ->
                IF a.lvl = 0 THEN [a EXCEPT !.live = FALSE]
                ELSE [a EXCEPT !.lvl = @ - 1,
                               !.acc = Append(@, [t EXCEPT !.collevel = a.lvl - 1])]
           [] t.kind = k ->
                [a EXCEPT !.acc = Append(@, [t EXCEPT !.collevel = a.lvl])]
           [] OTHER -> a

\* The tokens lo .. hi of d in order, from parser state a.  (The walks of
\* this module split their range in two and compare the state reached in
\* the middle with itself: TLC then evaluates it before it goes on, and a
\* long descriptor stays within its stack.)
RECURSIVE hid_get_items(_, _, _, _, _)
hid_get_items(d, k, lo, hi, a) ==
    IF lo > hi THEN a
    ELSE IF lo = hi THEN hid_get_item(k, a, d[lo])
    ELSE LET m == hid_get_items(d, k, lo, (lo + hi) \div 2, a)
         IN  IF m = m THEN hid_get_items(d, k, (lo + hi) \div 2 + 1, hi, m) ELSE a

Items(d, k) ==
    hid_get_items(d, k, 1, Len(d), [lvl |-> 0, acc |-> <<>>, live |-> TRUE]).acc

---------------------------------------------------------------------------
(* wmt_hid_report_size                                                     *)

\* lpos = 0xFFFFFFFF: TLC's integers end at 2^31 - 1, which stands for
\* it; every bit position of a descriptor of the model lies far below.
LPOS_INIT == 2147483647

\* A loop body that takes the items of every report id
ReportItemAnyId(k, id, st, h) ==
    LET temp == h.loc.pos + (h.loc.size * h.loc.count)
    IN  IF h.kind = k
        THEN [lpos |-> IF st.lpos > h.loc.pos THEN h.loc.pos ELSE st.lpos,
              hpos |-> IF st.hpos < temp THEN temp ELSE st.hpos]
        ELSE st

\* The body of the while loop of wmt_hid_report_size
ReportItem(k, id, st, h) ==
    LET temp == h.loc.pos + (h.loc.size * h.loc.count)
    IN  IF h.kind = k /\ h.report_ID = id
        THEN [lpos |-> IF st.lpos > h.loc.pos THEN h.loc.pos ELSE st.lpos,
              hpos |-> IF st.hpos < temp THEN temp ELSE st.hpos]
        ELSE st

\* The while loop of wmt_hid_report_size over the items lo .. hi
RECURSIVE ReportSpan(_, _, _, _, _, _)
ReportSpan(items, k, id, lo, hi, st) ==
    IF lo > hi THEN st
    ELSE IF lo = hi THEN ReportItem(k, id, st, items[lo])
    ELSE LET m == ReportSpan(items, k, id, lo, (lo + hi) \div 2, st)
         IN  IF m = m THEN ReportSpan(items, k, id, (lo + hi) \div 2 + 1, hi, m)
             ELSE st

wmt_hid_report_size(d, k, id) ==
    LET items == Items(d, k)
        st == ReportSpan(items, k, id, 1, Len(items),
                         [lpos |-> LPOS_INIT, hpos |-> 0])
        temp == IF st.lpos > st.hpos THEN 0 ELSE st.hpos - st.lpos
    IN  (temp + 7) \div 8

---------------------------------------------------------------------------
(* struct imt_softc                                                        *)

\* The softc as the bus hands it to attach: zeroed memory.  locs holds the
\* entries of sc->locs[][] that were written; every other entry is ZeroLoc.
ZeroSoftc ==
    [type |-> 0,
     ai |-> [u \in Usages |-> ZeroAbsinfo],
     locs |-> <<>>,
     cont_count_loc |-> ZeroLoc,
     slot_data |-> [u \in Usages |-> 0],
     caps |-> {},
     isize |-> 0,
     nconts_per_report |-> 0,
     nconts_todo |-> 0,
     report_id |-> 0,
     cont_max_loc |-> ZeroLoc,
     cont_max_rlen |-> 0,
     cont_max_rid |-> 0,
     thqa_cert_rlen |-> 0,
     thqa_cert_rid |-> 0,
     input_mode_loc |-> ZeroLoc,
     input_mode_rlen |-> 0,
     input_mode_rid |-> 0]

\* sc->locs[cont][usage]
Loc(s, cont, usage) ==
    IF <<cont, usage>> \in DOMAIN s.locs THEN s.locs[<<cont, usage>>] ELSE ZeroLoc

\* sc->locs[cont][usage] = loc
SetLoc(s, cont, usage, loc) ==
    [s EXCEPT !.locs =
        [p \in (DOMAIN s.locs) \cup {<<cont, usage>>} |->
            IF p = <<cont, usage>> THEN loc ELSE s.locs[p]]]

---------------------------------------------------------------------------
(* wmt_hid_parse, pass 1: feature items                                    *)

FeatInit(s) ==
    [touch_coll |-> FALSE, conf_coll |-> FALSE, cont_count_max |-> 0,
     cont_max_rid |-> 0, thqa_cert_rid |-> 0, input_mode_rid |-> 0, sc |-> s]

\* case hid_collection of the feature pass
FeatCollection(st, hi) ==
    [st EXCEPT
        !.touch_coll = IF hi.collevel = 1 /\
                          hi.usage \in {"HUD_TOUCHSCREEN", "HUD_TOUCHPAD"}
                       THEN TRUE ELSE @,
        !.conf_coll = IF hi.collevel = 1 /\ hi.usage = "HUD_CONFIG"
                      THEN TRUE ELSE @]

\* case hid_endcollection of the feature pass: the break after the first test
\* leaves the test that would clear conf_coll unreachable.
FeatEndCollection(st, hi) ==
    [st EXCEPT !.touch_coll = IF hi.collevel = 0 /\ @ THEN FALSE ELSE @]

\* the contact count maximum test of case hid_feature
FeatContMax(st, hi, probe) ==
    IF hi.collevel = 1 /\ st.touch_coll /\ hi.abs /\ hi.usage = "HUD_CONTACT_MAX"
    THEN [st EXCEPT !.cont_count_max = hi.logical_maximum,
                    !.cont_max_rid = hi.report_ID,
                    !.sc = IF probe THEN @ ELSE [@ EXCEPT !.cont_max_loc = hi.loc]]
    ELSE st

\* the input mode test of case hid_feature
FeatInputMode(st, hi, probe) ==
    IF st.conf_coll /\ hi.abs /\ hi.usage = "HUD_INPUT_MODE"
    THEN [st EXCEPT !.input_mode_rid = hi.report_ID,
                    !.sc = IF probe THEN @ ELSE [@ EXCEPT !.input_mode_loc = hi.loc]]
    ELSE st

\* A case hid_feature that takes the certificate at any depth
FeatFeatureAnyDepth(st, hi, probe) ==
    IF st.touch_coll /\ hi.usage = "HUMS_THQA_CERT"
    THEN [st EXCEPT !.thqa_cert_rid = hi.report_ID]
    ELSE FeatInputMode(FeatContMax(st, hi, probe), hi, probe)

\* case hid_feature
FeatFeature(st, hi, probe) ==
    IF hi.collevel = 1 /\ st.touch_coll /\ hi.usage = "HUMS_THQA_CERT"
    THEN [st EXCEPT !.thqa_cert_rid = hi.report_ID]
    ELSE FeatInputMode(FeatContMax(st, hi, probe), hi, probe)

FeatStep(st, hi, probe) ==
    CASE hi.kind = "collection" -> FeatCollection(st, hi)
      [] hi.kind = "endcollection" -> FeatEndCollection(st, hi)
      [] hi.kind = "feature" -> FeatFeature(st, hi, probe)
      [] OTHER -> st

\* The while loop of the feature pass over the items lo .. hi
RECURSIVE FeatWalk(_, _, _, _, _)
FeatWalk(items, lo, hi, st, probe) ==
    IF lo > hi THEN st
    ELSE IF lo = hi THEN FeatStep(st, items[lo], probe)
    ELSE LET m == FeatWalk(items, lo, (lo + hi) \div 2, st, probe)
         IN  IF m = m THEN FeatWalk(items, (lo + hi) \div 2 + 1, hi, m, probe)
             ELSE st

\* A feature pass that lets every descriptor through
FeatPassAlways(f) == TRUE

\* "Maximum contact count is required usage"
FeatPassOk(f) == f.cont_max_rid # 0

---------------------------------------------------------------------------
(* wmt_hid_parse, pass 2: input items                                      *)

InputInit(s) ==
    [touch_coll |-> FALSE, finger_coll |-> FALSE, cont |-> 0, type |-> 0,
     caps |-> {}, report_id |-> 0, cont_count_found |-> FALSE,
     scan_time_found |-> FALSE, sc |-> s]

\* (report_id == 0 || report_id == hi.report_ID)
SameReport(st, hi) == st.report_id = 0 \/ st.report_id = hi.report_ID

\* case hid_collection of the input pass
InputCollection(st, hi) ==
    LET a == IF hi.collevel = 1 /\ hi.usage = "HUD_TOUCHSCREEN"
             THEN [st EXCEPT !.touch_coll = TRUE, !.type = HUD_TOUCHSCREEN]
             ELSE st
    IN  IF hi.collevel = 1 /\ hi.usage = "HUD_TOUCHPAD"
        THEN [a EXCEPT !.touch_coll = TRUE, !.type = HUD_TOUCHPAD]
        ELSE IF a.touch_coll /\ hi.collevel = 2 /\ SameReport(a, hi) /\
                hi.usage = "HUD_FINGER"
             THEN [a EXCEPT !.finger_coll = TRUE]
             ELSE a

\* case hid_endcollection of the input pass
InputEndCollection(st, hi) ==
    IF hi.collevel = 1 /\ st.finger_coll
    THEN [st EXCEPT !.finger_coll = FALSE, !.cont = @ + 1]
    ELSE IF hi.collevel = 0 /\ st.touch_coll
         THEN [st EXCEPT !.touch_coll = FALSE]
         ELSE st

\* The body of the for loop over wmt_hid_map once the usage matches, sc != NULL:
\* record the location; for contact 0 also the capability and the axis info.
BindAttach(st, hi, i) ==
    LET s1 == SetLoc(st.sc, st.cont, i, hi.loc)
    IN  IF st.cont > 0
        THEN [st EXCEPT !.sc = s1]
        ELSE [st EXCEPT
                !.caps = @ \cup {i},
                !.sc = [s1 EXCEPT !.ai[i] = [max |-> hi.logical_maximum,
                                             min |-> hi.logical_minimum,
                                             res |-> hi.res]]]

\* A loop that ends at the first channel with the item's usage, bound or not
RECURSIVE BindLoopSingle(_, _, _, _)
BindLoopSingle(st, hi, i, probe) ==
    IF i >= WMT_N_USAGES THEN st
    ELSE IF hi.usage = wmt_hid_map[i].usage
         THEN IF probe
              THEN [st EXCEPT !.caps = @ \cup {i}]
              ELSE IF Loc(st.sc, st.cont, i).size # 0 THEN st
                   ELSE BindAttach(st, hi, i)
         ELSE BindLoopSingle(st, hi, i + 1, probe)

\* for (i = 0; i < WMT_N_USAGES; i++): the first channel with the item's usage
\* that is not bound yet takes the item; a bound one is passed over (continue).
RECURSIVE BindLoop(_, _, _, _)
BindLoop(st, hi, i, probe) ==
    IF i >= WMT_N_USAGES THEN st
    ELSE IF hi.usage = wmt_hid_map[i].usage
         THEN IF probe
              THEN IF USAGE_SUPPORTED(st.caps, i)
                   THEN BindLoop(st, hi, i + 1, probe)
                   ELSE [st EXCEPT !.caps = @ \cup {i}]
              ELSE IF Loc(st.sc, st.cont, i).size # 0
                   THEN BindLoop(st, hi, i + 1, probe)
                   ELSE BindAttach(st, hi, i)
         ELSE BindLoop(st, hi, i + 1, probe)

\* A case hid_input that takes the fields of every contact without a softc
InputFieldAllContacts(st, hi, probe) ==
    IF hi.collevel = 1 /\ hi.usage = "HUD_CONTACTCOUNT"
    THEN [st EXCEPT !.cont_count_found = TRUE,
                    !.sc = IF probe THEN @ ELSE [@ EXCEPT !.cont_count_loc = hi.loc]]
    ELSE IF hi.collevel = 1 /\ hi.usage = "HUD_SCAN_TIME"
    THEN [st EXCEPT !.scan_time_found = TRUE]
    ELSE IF ~st.finger_coll \/ hi.collevel # 2
    THEN st
    ELSE IF st.cont >= MAX_MT_SLOTS
    THEN st
    ELSE BindLoop(st, hi, 0, probe)

\* case hid_input, after the report id was pinned
InputField(st, hi, probe) ==
    IF hi.collevel = 1 /\ hi.usage = "HUD_CONTACTCOUNT"
    THEN [st EXCEPT !.cont_count_found = TRUE,
                    !.sc = IF probe THEN @ ELSE [@ EXCEPT !.cont_count_loc = hi.loc]]
    ELSE IF hi.collevel = 1 /\ hi.usage = "HUD_SCAN_TIME"
    THEN [st EXCEPT !.scan_time_found = TRUE]
    ELSE IF ~st.finger_coll \/ hi.collevel # 2
    THEN st
    ELSE IF probe /\ st.cont > 0
    THEN st
    ELSE IF st.cont >= MAX_MT_SLOTS
    THEN st
    ELSE BindLoop(st, hi, 0, probe)

\* case hid_input
InputInput(st, hi, probe) ==
    IF hi.abs /\ st.touch_coll /\ SameReport(st, hi)
    THEN InputField([st EXCEPT !.report_id = hi.report_ID], hi, probe)
    ELSE st

InputStep(st, hi, probe) ==
    CASE hi.kind = "collection" -> InputCollection(st, hi)
      [] hi.kind = "endcollection" -> InputEndCollection(st, hi)
      [] hi.kind = "input" -> InputInput(st, hi, probe)
      [] OTHER -> st

\* The while loop of the input pass over the items lo .. hi
RECURSIVE InputWalk(_, _, _, _, _)
InputWalk(items, lo, hi, st, probe) ==
    IF lo > hi THEN st
    ELSE IF lo = hi THEN InputStep(st, items[lo], probe)
    ELSE LET m == InputWalk(items, lo, (lo + hi) \div 2, st, probe)
         IN  IF m = m THEN InputWalk(items, (lo + hi) \div 2 + 1, hi, m, probe)
             ELSE st

\* "Check for required HID Usages": the found flags and the contact counter
FieldsFound(st) == st.cont_count_found /\ st.scan_time_found /\ st.cont # 0

\* A check that one required usage satisfies
RequiredAny(caps) ==
    \E i \in Usages : wmt_hid_map[i].required /\ USAGE_SUPPORTED(caps, i)

\* "Check for required HID Usages": the loop over wmt_hid_map
RequiredSupported(caps) ==
    \A i \in Usages : wmt_hid_map[i].required => USAGE_SUPPORTED(caps, i)

\* The default of the contact count maximum without the cap
ContCountMaxNoCap(cont_count_max, cont) ==
    IF cont_count_max < 1 THEN cont ELSE cont_count_max

\* The default and the cap of the contact count maximum
ContCountMax(cont_count_max, cont) ==
    LET m == IF cont_count_max < 1 THEN cont ELSE cont_count_max
    IN  IF m > MAX_MT_SLOTS THEN MAX_MT_SLOTS ELSE m

\* The tail of wmt_hid_parse with sc != NULL: slot axis, orientation, report
\* sizes and the fields copied to the softc.
ParseFinish(d, f, st) ==
    LET ccm == ContCountMax(f.cont_count_max, st.cont)
        ori == USAGE_SUPPORTED(st.caps, WMT_WIDTH) /\
               USAGE_SUPPORTED(st.caps, WMT_HEIGHT)
        caps == IF ori THEN st.caps \cup {WMT_ORIENTATION} ELSE st.caps
        s1 == [st.sc EXCEPT !.ai[WMT_SLOT] = [min |-> 0, max |-> ccm - 1, res |-> 0]]
        s2 == IF ori THEN [s1 EXCEPT !.ai[WMT_ORIENTATION].max = 1] ELSE s1
    IN  [s2 EXCEPT
            !.isize = wmt_hid_report_size(d, "input", st.report_id),
            !.cont_max_rlen = wmt_hid_report_size(d, "feature", f.cont_max_rid),
            !.thqa_cert_rlen = IF f.thqa_cert_rid > 0
                               THEN wmt_hid_report_size(d, "feature", f.thqa_cert_rid)
                               ELSE @,
            !.input_mode_rlen = IF f.input_mode_rid > 0
                                THEN wmt_hid_report_size(d, "feature", f.input_mode_rid)
                                ELSE @,
            !.report_id = st.report_id,
            !.caps = caps,
            !.nconts_per_report = st.cont,
            !.cont_max_rid = f.cont_max_rid,
            !.thqa_cert_rid = f.thqa_cert_rid,
            !.input_mode_rid = f.input_mode_rid]

\* wmt_hid_parse(sc, d_ptr, d_len); probe stands for sc == NULL.  The result
\* holds the return value (type), the softc as the call leaves it and the
\* locals the checks read.
wmt_hid_parse(s, d, probe) ==
    LET fi == Items(d, "feature")
        ii == Items(d, "input")
        f == FeatWalk(fi, 1, Len(fi), FeatInit(s), probe)
        st == InputWalk(ii, 1, Len(ii), InputInit(f.sc), probe)
        none == [type |-> 0, sc |-> f.sc, input_pass |-> FALSE,
                 cont_count_found |-> FALSE, scan_time_found |-> FALSE,
                 cont |-> 0, caps |-> {}, report_id |-> 0]
        seen == [type |-> 0, sc |-> st.sc, input_pass |-> TRUE,
                 cont_count_found |-> st.cont_count_found,
                 scan_time_found |-> st.scan_time_found,
                 cont |-> st.cont, caps |-> st.caps, report_id |-> st.report_id]
    IN  IF ~FeatPassOk(f) THEN none
        ELSE IF ~FieldsFound(st) THEN seen
        ELSE IF ~RequiredSupported(st.caps) THEN seen
        ELSE IF probe THEN [seen EXCEPT !.type = st.type]
        ELSE [seen EXCEPT !.type = st.type, !.sc = ParseFinish(d, f, st)]

---------------------------------------------------------------------------
(* The event sink (evdev) and its slot allocator                           *)

\* No evdev device yet.
NoEvdev == [cur |-> 0, tracking |-> <<>>]

\* evdev_support_abs(ABS_MT_SLOT, 0, ai[WMT_SLOT].max) at registration: the
\* device has slots 0 .. max, all free (tracking id -1).
NewEvdev(s) == [cur |-> 0, tracking |-> [x \in 0 .. s.ai[WMT_SLOT].max |-> -1]]

SlotsOf(e) == DOMAIN e.tracking

\* evdev_get_mt_slot_by_tracking_id: the slot that tracks the id; for an id
\* that is not tracked the first free slot, or -1 (overflow) when there is
\* none.
evdev_get_mt_slot_by_tracking_id(e, id) ==
    LET held == {x \in SlotsOf(e) : e.tracking[x] = id}
        free == {x \in SlotsOf(e) : e.tracking[x] = -1}
        lowest(S) == CHOOSE x \in S : \A y \in S : x <= y
    IN  IF held # {} THEN lowest(held)
        ELSE IF free # {} THEN lowest(free)
        ELSE -1

\* evdev_push_abs: ABS_MT_SLOT selects the current slot, ABS_MT_TRACKING_ID
\* sets (or with -1 releases) the tracking id of the current slot.
evdev_push_abs(e, code, value) ==
    CASE code = "ABS_MT_SLOT" -> [e EXCEPT !.cur = value]
      [] code = "ABS_MT_TRACKING_ID" /\ e.cur \in SlotsOf(e) ->
            [e EXCEPT !.tracking[e.cur] = value]
      [] OTHER -> e

RECURSIVE PushAll(_, _, _)
PushAll(e, events, i) ==
    IF i > Len(events) THEN e
    ELSE PushAll(evdev_push_abs(e, events[i][1], events[i][2]), events, i + 1)

---------------------------------------------------------------------------
(* imt_intr                                                                *)

\* hid_get_data_unsigned(buf, len, loc): the value stored at the location
hid_get_data_unsigned(buf, loc) ==
    IF loc.pos \in DOMAIN buf THEN buf[loc.pos] ELSE 0

\* A decoder that takes every report for a touch report
ReportAny(s, id) == TRUE

\* "Ignore irrelevant reports"
ReportAccepted(s, id) == s.report_id = id

\* A decoder that assigns the counter from every report
NextTodoAlways(todo, cont_count) == cont_count

\* if (cont_count != 0) sc->nconts_todo = cont_count;
NextTodo(todo, cont_count) == IF cont_count # 0 THEN cont_count ELSE todo

\* A decoder that takes all the contacts to do from one report, and one
\* that takes none
ContsInReportAll(todo, per_report) == todo
ContsInReportNone(todo, per_report) == 0

\* cont_count = MIN(sc->nconts_todo, sc->nconts_per_report)
ContsInReport(todo, per_report) == Min(todo, per_report)

\* bzero(slot_data) and the WMT_FOREACH_USAGE loop that fills it
DecodeSlot(s, buf, cont) ==
    [u \in Usages |->
        IF USAGE_SUPPORTED(s.caps, u) /\ Loc(s, cont, u).size > 0
        THEN hid_get_data_unsigned(buf, Loc(s, cont, u))
        ELSE 0]

\* A liveness test that leaves the confidence out
IsActiveTipOnly(caps, slot_data) == slot_data[WMT_TIP_SWITCH] # 0

\* "This finger is in proximity of the sensor"
IsActive(caps, slot_data) ==
    slot_data[WMT_TIP_SWITCH] # 0 /\
    ~(USAGE_SUPPORTED(caps, WMT_CONFIDENCE) /\ slot_data[WMT_CONFIDENCE] = 0)

\* An orientation that takes equal halves for a wide contact
OrientationGeq(width, height) == IF width >= height THEN 1 ELSE 0

\* slot_data[WMT_ORIENTATION] = width > height
Orientation(width, height) == IF width > height THEN 1 ELSE 0

\* An in-range value passed on as decoded
InRangeRaw(in_range) == in_range

\* slot_data[WMT_IN_RANGE] = !slot_data[WMT_IN_RANGE]
InRange(in_range) == IF in_range = 0 THEN 1 ELSE 0

\* The assignments of the active branch to slot_data
ActiveData(slot_data, slot) ==
    LET width == slot_data[WMT_WIDTH] \div 2
        height == slot_data[WMT_HEIGHT] \div 2
    IN  [slot_data EXCEPT
            ![WMT_SLOT] = slot,
            ![WMT_IN_RANGE] = InRange(slot_data[WMT_IN_RANGE]),
            ![WMT_ORIENTATION] = Orientation(width, height),
            ![WMT_MAJOR] = Max(width, height),
            ![WMT_MINOR] = Min(width, height)]

\* WMT_FOREACH_USAGE(sc->caps, usage) if (code != WMT_NO_CODE) evdev_push_abs
RECURSIVE ActiveEventsFrom(_, _, _)
ActiveEventsFrom(caps, slot_data, u) ==
    IF u >= WMT_N_USAGES THEN <<>>
    ELSE IF USAGE_SUPPORTED(caps, u) /\ wmt_hid_map[u].code # "WMT_NO_CODE"
         THEN <<<<wmt_hid_map[u].code, slot_data[u]>>>> \o
              ActiveEventsFrom(caps, slot_data, u + 1)
         ELSE ActiveEventsFrom(caps, slot_data, u + 1)

ActiveEvents(caps, slot_data) == ActiveEventsFrom(caps, slot_data, 0)

\* A release that does not select the slot first
ReleaseNoSlot(slot) == <<<<"ABS_MT_TRACKING_ID", -1>>>>

\* The else branch: the slot and the "no contact" tracking id
ReleaseEvents(slot) == <<<<"ABS_MT_SLOT", slot>>, <<"ABS_MT_TRACKING_ID", -1>>>>

\* A loop that an overflow ends (break)
AbortOnOverflow(cont, cont_count) == cont_count

\* if (slot == -1) continue: the loop goes on with the next contact
AfterOverflow(cont, cont_count) == cont + 1

\* A decoder that syncs at the end of every call
SyncAlways(todo) == TRUE

\* if (sc->nconts_todo == 0) evdev_sync(sc->evdev)
SyncDue(todo) == todo = 0

\* What the loop body does with one contact, given the decoded slot_data and
\* the slot the allocator gave: the branch taken, the events pushed and the
\* slot_data it leaves (after).
ContactSeen(caps, cont, data, slot) ==
    IF slot = -1
    THEN [cont |-> cont, data |-> data, slot |-> slot, branch |-> "overflow",
          events |-> <<>>, after |-> data]
    ELSE IF IsActive(caps, data)
    THEN [cont |-> cont, data |-> data, slot |-> slot, branch |-> "active",
          events |-> ActiveEvents(caps, ActiveData(data, slot)),
          after |-> ActiveData(data, slot)]
    ELSE [cont |-> cont, data |-> data, slot |-> slot, branch |-> "release",
          events |-> ReleaseEvents(slot), after |-> data]

\* The loop over the contacts of a report.  acc holds the softc, the sink and
\* the contacts seen so far.  Each step binds what it computed (the decoded
\* slot_data, the contact seen, the accumulator) to one value through a
\* singleton set, so that the next step reads a value, not an expression.
RECURSIVE ContactLoop(_, _, _, _)
RECURSIVE ContactSlot(_, _, _, _, _)
RECURSIVE ContactPush(_, _, _, _, _)

ContactLoop(acc, buf, cont, cont_count) ==
    IF cont >= cont_count THEN acc
    ELSE CHOOSE next \in {ContactSlot(acc, buf, cont, cont_count, data) :
                             data \in {DecodeSlot(acc.sc, buf, cont)}} : TRUE

ContactSlot(acc, buf, cont, cont_count, data) ==
    CHOOSE next \in
        {ContactPush(acc, buf, cont, cont_count, seen) :
            seen \in {ContactSeen(acc.sc.caps, cont, data,
                                  evdev_get_mt_slot_by_tracking_id(
                                      acc.ev, data[WMT_CONTACTID]))}} : TRUE

ContactPush(acc, buf, cont, cont_count, seen) ==
    CHOOSE next \in
        {ContactLoop(a, buf,
                     IF seen.slot = -1 THEN AfterOverflow(cont, cont_count)
                     ELSE cont + 1,
                     cont_count) :
            a \in {[sc |-> [acc.sc EXCEPT !.slot_data = seen.after],
                    ev |-> PushAll(acc.ev, seen.events, 1),
                    conts |-> Append(acc.conts, seen)]}} : TRUE

\* The end of imt_intr: the counter is decremented and the sync sent
IntrEnd(r, cc, before, todo, cont_count, acc) ==
    [sc |-> [acc.sc EXCEPT !.nconts_todo = todo - cont_count],
     ev |-> acc.ev,
     obs |-> [called |-> TRUE, id |-> r.id, accepted |-> TRUE, cc |-> cc,
              before |-> before, conts |-> acc.conts,
              sync |-> SyncDue(todo - cont_count)]]

IntrContacts(s, e, r, cc, todo, cont_count) ==
    CHOOSE end \in
        {IntrEnd(r, cc, s.nconts_todo, todo, cont_count, acc) :
            acc \in {ContactLoop([sc |-> [s EXCEPT !.nconts_todo = todo],
                                  ev |-> e, conts |-> <<>>],
                                 r.buf, 0, cont_count)}} : TRUE

IntrCount(s, e, r, cc, todo) ==
    IntrContacts(s, e, r, cc, todo, ContsInReport(todo, s.nconts_per_report))

\* imt_intr(sc, buf, len, id) with the sink e.  The result holds the softc
\* and the sink after the call and what the call did (obs): the report id,
\* whether the report was accepted, the contact count decoded (cc), the
\* counter before the call, the contacts processed and whether evdev_sync
\* was called.
imt_intr(s, e, r) ==
    IF ~ReportAccepted(s, r.id)
    THEN [sc |-> s, ev |-> e,
          obs |-> [called |-> TRUE, id |-> r.id, accepted |-> FALSE, cc |-> 0,
                   before |-> s.nconts_todo, conts |-> <<>>, sync |-> FALSE]]
    ELSE IntrCount(s, e, r, hid_get_data_unsigned(r.buf, s.cont_count_loc),
                   NextTodo(s.nconts_todo,
                            hid_get_data_unsigned(r.buf, s.cont_count_loc)))

---------------------------------------------------------------------------
(* imt_probe, imt_attach, wmt_cont_max_parse, imt_set_input_mode           *)

\* Refinements without the cap at MAX_MT_SLOTS, and without the test for 0
wmt_cont_max_parse_nocap(s, v) ==
    IF v > 0 /\ v # s.ai[WMT_SLOT].max + 1
    THEN [s EXCEPT !.ai[WMT_SLOT].max = v - 1]
    ELSE s

wmt_cont_max_parse_nozero(s, v) ==
    LET cont_count_max == IF v > MAX_MT_SLOTS THEN MAX_MT_SLOTS ELSE v
    IN  [s EXCEPT !.ai[WMT_SLOT].max = cont_count_max - 1]

\* wmt_cont_max_parse; v is the value hid_get_data_unsigned reads at
\* sc->cont_max_loc of the feature report
wmt_cont_max_parse(s, v) ==
    LET cont_count_max == IF v > MAX_MT_SLOTS THEN MAX_MT_SLOTS ELSE v
    IN  IF cont_count_max > 0 /\ cont_count_max # s.ai[WMT_SLOT].max + 1
        THEN [s EXCEPT !.ai[WMT_SLOT].max = cont_count_max - 1]
        ELSE s

\* "Fetch and parse Contact count maximum feature report"; io.cm_ok tells
\* whether iichid_get_report succeeds and fw_max what the report holds
ContMaxRefine(s, io, fw_max) ==
    IF s.cont_max_rlen > 0 /\ s.cont_max_rlen <= WMT_BSIZE /\ io.cm_ok
    THEN wmt_cont_max_parse(s, fw_max)
    ELSE s

\* hid_put_data_unsigned on a buffer indexed like the reports of the model,
\* by the bit position of the field
hid_put_data_unsigned(buf, loc, value) ==
    [q \in DOMAIN buf |-> IF q = loc.pos THEN value ELSE buf[q]]

\* The feature report of rlen bytes as the device answers it (every byte 1)
\* and after bzero: one entry per byte, at the byte's bit position
FeatureBytes(rlen) == {8 * b : b \in 0 .. rlen - 1}
DeviceReport(rlen) == [q \in FeatureBytes(rlen) |-> 1]
ZeroReport(rlen) == [q \in FeatureBytes(rlen) |-> 0]

\* What imt_set_input_mode does when no report is transferred
NoMode == [called |-> FALSE, read |-> 0, write |-> 0, written |-> FALSE,
           buf |-> <<>>, error |-> 0]

\* The variant below gives up when the report cannot be read.
imt_set_input_mode_strict(s, io) ==
    LET buf == hid_put_data_unsigned(DeviceReport(s.input_mode_rlen),
                                     s.input_mode_loc, IMT_INPUT_MODE_MT_TOUCHPAD)
    IN  IF io.im_read # 0
        THEN [NoMode EXCEPT !.called = TRUE, !.read = io.im_read,
                            !.write = io.im_write, !.error = io.im_read]
        ELSE [called |-> TRUE, read |-> io.im_read, write |-> io.im_write,
              written |-> TRUE, buf |-> buf, error |-> io.im_write]

\* imt_set_input_mode(sc, IMT_INPUT_MODE_MT_TOUCHPAD): io.im_read and
\* io.im_write are the results of iichid_get_report and iichid_set_report.
\* The length test can never hold; a failed read only zeroes the buffer; the
\* mode goes to the input mode location and the buffer is written; the
\* result is the result of the write.
imt_set_input_mode(s, io) ==
    IF s.input_mode_rlen = 0 /\ s.input_mode_rlen > WMT_BSIZE
    THEN [NoMode EXCEPT !.called = TRUE, !.read = io.im_read,
                        !.write = io.im_write, !.error = EINVAL]
    ELSE LET got == IF io.im_read # 0 THEN ZeroReport(s.input_mode_rlen)
                    ELSE DeviceReport(s.input_mode_rlen)
             buf == hid_put_data_unsigned(got, s.input_mode_loc,
                                          IMT_INPUT_MODE_MT_TOUCHPAD)
         IN  [called |-> TRUE, read |-> io.im_read, write |-> io.im_write,
              written |-> TRUE, buf |-> buf, error |-> io.im_write]

\* What the checks keep of one refinement of the slot range: whether
\* wmt_cont_max_parse ran, the value v of the feature report, the slot
\* maximum before and after, and whether every other field stayed
RefineObs(s, t, io, v) ==
    [called |-> TRUE,
     applied |-> s.cont_max_rlen > 0 /\ s.cont_max_rlen <= WMT_BSIZE /\ io.cm_ok,
     v |-> v, before |-> s.ai[WMT_SLOT].max, after |-> t.ai[WMT_SLOT].max,
     kept |-> [t EXCEPT !.ai[WMT_SLOT].max = s.ai[WMT_SLOT].max] = s]

NoRefine == [called |-> FALSE, applied |-> FALSE, v |-> 0, before |-> 0,
             after |-> 0, kept |-> TRUE]

\* The input mode step of imt_attach: only a touch pad with an input mode
\* report has its mode set
InputModeStep(s, io) ==
    IF s.type = HUD_TOUCHPAD /\ s.input_mode_rlen # 0
    THEN imt_set_input_mode(s, io) ELSE NoMode

\* The way imt_attach ends: r is the result of wmt_hid_parse, s1 the softc
\* after it, s2 the softc after the contact count maximum fetch, mode the
\* outcome of the input mode step
AttachOutcome(r, s1, s2, mode, fw_max, io) ==
    LET seen == [sc |-> s2, ev |-> NoEvdev, error |-> ENXIO, parse |-> r,
                 refine |-> RefineObs(s1, s2, io, fw_max), mode |-> mode,
                 intr_setup |-> FALSE, register |-> FALSE]
    IN  IF s1.type = 0
        THEN [seen EXCEPT !.sc = s1, !.refine = NoRefine, !.mode = NoMode]
        ELSE IF mode.error # 0
        THEN seen
        ELSE IF ~io.reg_ok
        THEN [seen EXCEPT !.intr_setup = TRUE, !.register = TRUE]
        ELSE [seen EXCEPT !.ev = NewEvdev(s2), !.error = 0,
                          !.intr_setup = TRUE, !.register = TRUE]

\* imt_attach on a device with report descriptor d whose firmware answers
\* fw_max: the softc, the sink, the value returned, and what the checks
\* keep of the steps: the refinement, the input mode transfer, and whether
\* iichid_intr_setup and evdev_register_mtx were reached
imt_attach(s, d, fw_max, io) ==
    LET r == wmt_hid_parse(s, d, FALSE)
        s1 == [r.sc EXCEPT !.type = r.type]
        s2 == ContMaxRefine(s1, io, fw_max)
    IN  AttachOutcome(r, s1, s2, InputModeStep(s2, io), fw_max, io)

\* What the checks keep of an imt_attach call
AttachObs(a) ==
    [called |-> TRUE, error |-> a.error, refine |-> a.refine, mode |-> a.mode,
     intr_setup |-> a.intr_setup, register |-> a.register]

NoAttach ==
    [called |-> FALSE, error |-> 0, refine |-> NoRefine, mode |-> NoMode,
     intr_setup |-> FALSE, register |-> FALSE]

\* What the checks keep of a wmt_hid_report_size call: the kind and the
\* report id asked for, the result, the result of the call before, and what
\* happened to the item stream between the two
NoSize == [called |-> FALSE, k |-> "input", id |-> 0, size |-> 0, before |-> 0,
           edit |-> "none"]

\* What the checks keep of a wmt_hid_parse call
ParseObs(r) ==
    [called |-> TRUE, type |-> r.type, input_pass |-> r.input_pass,
     cont_count_found |-> r.cont_count_found,
     scan_time_found |-> r.scan_time_found,
     cont |-> r.cont, caps |-> r.caps, report_id |-> r.report_id]

NoParse ==
    [called |-> FALSE, type |-> 0, input_pass |-> FALSE,
     cont_count_found |-> FALSE, scan_time_found |-> FALSE,
     cont |-> 0, caps |-> {}, report_id |-> 0]

NoObs ==
    [called |-> FALSE, id |-> 0, accepted |-> FALSE, cc |-> 0, before |-> 0,
     conts |-> <<>>, sync |-> FALSE]

NoFrame == [live |-> FALSE, n |-> 0, calls |-> 0, done |-> 0]

\* What a call that reported one touching contact of a device with the
\* in-range channel transmitted: the contact, its slot and the in-range
\* value of slot_data
NoTouch == [active |-> FALSE, id |-> 0, slot |-> 0, in_range |-> 0]

Touched(s, o) ==
    IF /\ USAGE_SUPPORTED(s.caps, WMT_IN_RANGE)
       /\ o.accepted /\ Len(o.conts) = 1
       /\ o.conts[1].branch = "active"
    THEN [active |-> TRUE, id |-> o.conts[1].data[WMT_CONTACTID],
          slot |-> o.conts[1].slot, in_range |-> o.conts[1].after[WMT_IN_RANGE]]
    ELSE NoTouch

---------------------------------------------------------------------------
(* Report descriptors                                                      *)

Token(kind, usage, rid, abs, pos, size, lmax) ==
    [kind |-> kind, collevel |-> 0, usage |-> usage, report_ID |-> rid,
     abs |-> abs, loc |-> [pos |-> pos, size |-> size, count |-> IF size = 0 THEN 0 ELSE 1],
     logical_minimum |-> 0, logical_maximum |-> lmax, res |-> 0]

Coll(usage, rid) == Token("collection", usage, rid, FALSE, 0, 0, 0)
EndColl(rid) == Token("endcollection", "NONE", rid, FALSE, 0, 0, 0)
In(usage, rid, pos, lmax) == Token("input", usage, rid, TRUE, pos, 8, lmax)
Feat(usage, rid, pos, lmax) == Token("feature", usage, rid, TRUE, pos, 8, lmax)

\* Bit position of field j (1 ..) of finger f (0 ..) in the input report; the
\* contact count sits at bit 0 and the scan time at bit 8.
FieldPos(f, j) == 8 * (2 + f * 12 + (j - 1))

\* Logical maximum a field of the usage declares
FieldMax(usage) ==
    CASE usage \in {"HUD_TIP_SWITCH", "HUD_IN_RANGE", "HUD_CONFIDENCE"} -> 1
      [] usage = "HUD_CONTACTID" -> 15
      [] OTHER -> 255

\* The fields of finger f, those of the usages in skip left out
RECURSIVE FingerFields(_, _, _, _, _)
FingerFields(chans, rid, f, j, skip) ==
    IF j > Len(chans) THEN <<>>
    ELSE (IF chans[j] \in skip THEN <<>>
          ELSE <<In(chans[j], rid, FieldPos(f, j), FieldMax(chans[j]))>>) \o
         FingerFields(chans, rid, f, j + 1, skip)

\* The THQA certificate feature when the descriptor has it at the place
Certificate(sh, place) ==
    IF sh.thqa /\ sh.thqa_at = place
    THEN <<Feat("HUMS_THQA_CERT", sh.frid + 1, 0, 255)>> ELSE <<>>

\* The items inside a collection of their own, when there are any
Nested(tokens, rid) ==
    IF tokens = <<>> THEN <<>>
    ELSE <<Coll("HUD_OTHER", rid)>> \o tokens \o <<EndColl(rid)>>

\* The finger collections from finger f on.  The usages of sh.drop are left
\* out of the first finger (scope "first") or of every finger (scope "all");
\* with sh.open the last finger collection is not closed.  The first finger
\* collection holds the THQA certificate of a descriptor that has it there,
\* directly (depth 2) or in a nested collection (depth 3).
RECURSIVE Fingers(_, _)
Fingers(sh, f) ==
    IF f >= Len(sh.fingers) THEN <<>>
    ELSE <<Coll("HUD_FINGER", sh.rid)>> \o
         (IF f = 0 THEN Certificate(sh, "finger") \o
                        Nested(Certificate(sh, "deep"), sh.rid)
          ELSE <<>>) \o
         FingerFields(sh.fingers[f + 1], sh.rid, f, 1,
                      IF sh.scope = "all" \/ f = 0 THEN sh.drop ELSE {}) \o
         (IF sh.open /\ f + 1 = Len(sh.fingers) THEN <<>> ELSE <<EndColl(sh.rid)>>) \o
         Fingers(sh, f + 1)

\* The items of tokens whose usage is not in drop
Kept(tokens, drop) == SelectSeq(tokens, LAMBDA t : t.usage \notin drop)

\* The contact count maximum feature: absolute unless sh.max_at says
\* "relative"
ContactMax(sh) ==
    Token("feature", "HUD_CONTACT_MAX", sh.frid, sh.max_at # "relative", 0, 8, sh.max)

\* The items of tokens, those of usage sh.alien_usage with the report id
\* sh.alien_rid
Alien(tokens, sh) ==
    [i \in DOMAIN tokens |->
        IF tokens[i].usage = sh.alien_usage
        THEN [tokens[i] EXCEPT !.report_ID = sh.alien_rid] ELSE tokens[i]]

\* A Windows multi-touch descriptor: one touch screen or touch pad
\* collection with the scan time, the contact count, the contact count
\* maximum feature, optionally the THQA certificate, and the finger
\* collections; optionally a configuration collection with the input mode
\* and the surface switch features; with sh.late a further top-level
\* collection with an input mode feature of its own (the surface switch
\* sits at bit sh.switch_pos of the report of the two); a certificate placed
\* "outside" sits in a last top-level collection, and so does a contact
\* count maximum placed "outside".  With sh.open the descriptor ends inside
\* the last finger collection.
Build(sh) ==
    Alien(
    <<Coll(sh.type, sh.rid)>> \o
    Kept(<<In("HUD_SCAN_TIME", sh.rid, 8, 255),
           In("HUD_CONTACTCOUNT", sh.rid, 0, 255)>> \o
         (IF sh.max_at = "outside" THEN <<>> ELSE <<ContactMax(sh)>>), sh.drop) \o
    Certificate(sh, "top") \o
    Fingers(sh, 0) \o
    (IF sh.open THEN <<>>
     ELSE <<EndColl(sh.rid)>> \o
          (IF sh.cfg
           THEN <<Coll("HUD_CONFIG", sh.frid + 2),
                  Feat("HUD_INPUT_MODE", sh.frid + 2, 0, 10),
                  Feat("HUD_SURFACE_SWITCH", sh.frid + 2, sh.switch_pos, 1),
                  EndColl(sh.frid + 2)>>
           ELSE <<>>) \o
          (IF sh.late
           THEN <<Coll("HUD_OTHER", sh.frid + 3),
                  Feat("HUD_INPUT_MODE", sh.frid + 3, 8, 10),
                  EndColl(sh.frid + 3)>>
           ELSE <<>>) \o
          Nested(Certificate(sh, "outside"), sh.frid + 1) \o
          (IF sh.max_at = "outside" THEN Nested(<<ContactMax(sh)>>, sh.frid)
           ELSE <<>>)), sh)

Shape(type, rid, fingers, max, thqa, cfg) ==
    [type |-> type, rid |-> rid, frid |-> 3, fingers |-> fingers, max |-> max,
     thqa |-> thqa, cfg |-> cfg, drop |-> {}, scope |-> "all", open |-> FALSE,
     thqa_at |-> "top", max_at |-> "top", late |-> FALSE,
     alien_usage |-> "NONE", alien_rid |-> 0, switch_pos |-> 8]

BasicFinger == <<"HUD_TIP_SWITCH", "HUD_CONTACTID", "HUG_X", "HUG_Y">>
HoverFinger == <<"HUD_TIP_SWITCH", "HUD_CONTACTID", "HUG_X", "HUG_Y",
                 "HUD_IN_RANGE", "HUD_CONFIDENCE">>
ShapeFinger == <<"HUD_TIP_SWITCH", "HUD_CONTACTID", "HUG_X", "HUG_X", "HUG_Y",
                 "HUD_WIDTH", "HUD_HEIGHT", "HUD_TIP_PRESSURE">>
TripleFinger == <<"HUD_TIP_SWITCH", "HUD_CONTACTID", "HUG_X", "HUG_Y", "HUG_X",
                  "HUG_Y", "HUG_X", "HUG_Y">>

\* n finger collections of the same fields
Repeated(finger, n) == [i \in 1 .. n |-> finger]

---------------------------------------------------------------------------
(* Bounds and input domains                                                *)

MaxCount == 3       \* largest contact count a report carries

IdVals == {0, 1}
WidthVals == {10, 11, 40}
HeightVals == {10, 40}
ReportIds == {1, 2}

\* A device: the shape of its report descriptor (Build) and the contact
\* count maximum its firmware answers in the feature report.
Device(sh, fw_max) == [shape |-> sh, fw_max |-> fw_max]

\* The devices the decoder is run on: a hovering touch screen and a touch
\* screen reporting the contact's shape, one contact per report and frame;
\* a touch screen with one contact per report and a touch pad with two,
\* both delivering frames of up to MaxCount contacts in hybrid mode.
DecoderDevices ==
    {Device(Shape("HUD_TOUCHSCREEN", 1, <<HoverFinger>>, 1, TRUE, FALSE), 2),
     Device(Shape("HUD_TOUCHSCREEN", 2, <<ShapeFinger>>, 1, FALSE, FALSE), 0),
     Device(Shape("HUD_TOUCHSCREEN", 1, <<BasicFinger>>, MaxCount, FALSE, FALSE), 1),
     Device(Shape("HUD_TOUCHPAD", 1, <<BasicFinger, BasicFinger>>, MaxCount,
                  FALSE, TRUE), 1)}

\* The descriptors wmt_hid_parse is run on: three complete ones, and each of
\* them with one usage left out of the first or of every finger collection,
\* or of the top-level collection, or with its last finger collection left
\* open, with each contact count maximum of MaxVals, with its certificate
\* at each place, with a contact count maximum that is not absolute or
\* outside the touch collection, with a late input mode feature, and with
\* the items of one usage under another report id, and with a contact
\* count maximum feature of report id 0, as in a descriptor that declares
\* no report id for it; and the descriptors of WideShapes.
ParseShapes ==
    {Shape("HUD_TOUCHSCREEN", 1, <<BasicFinger>>, 2, FALSE, FALSE),
     Shape("HUD_TOUCHPAD", 1, <<HoverFinger, HoverFinger>>, 0, TRUE, TRUE),
     Shape("HUD_TOUCHSCREEN", 2, <<ShapeFinger, ShapeFinger>>, 2, FALSE, FALSE)}

DropUsages ==
    {"HUD_TIP_SWITCH", "HUG_X", "HUG_Y", "HUD_CONTACTID", "HUD_IN_RANGE",
     "HUD_CONTACTCOUNT", "HUD_SCAN_TIME", "HUD_CONTACT_MAX"}

\* Logical maxima of the contact count maximum feature: none declared (0 and
\* below), within the slot capacity, and beyond it
MaxVals == {-1, 0, 1, MAX_MT_SLOTS, MAX_MT_SLOTS + 1, MAX_MT_SLOTS + 4}

\* Where a descriptor has its THQA certificate feature: in the touch
\* collection (depth 1), in the first finger collection (depth 2), in a
\* collection nested there (depth 3), or in a later top-level collection
CertPlaces == {"top", "finger", "deep", "outside"}

\* The items given a report id of their own, and the report ids they get: 0
\* and one that no descriptor uses otherwise
AlienUsages ==
    {"HUD_SCAN_TIME", "HUD_CONTACTCOUNT", "HUD_FINGER", "HUD_TIP_SWITCH", "HUG_Y",
     "HUD_IN_RANGE"}
AlienIds == {0, 7}

\* Descriptors with more finger collections than slots, and with repeated
\* X and Y fields
WideShapes ==
    {Shape("HUD_TOUCHSCREEN", 1,
           <<BasicFinger>> \o Repeated(<<"HUD_TIP_SWITCH">>, MAX_MT_SLOTS), n,
           FALSE, FALSE) : n \in {0, MAX_MT_SLOTS + 4}} \cup
    {Shape("HUD_TOUCHSCREEN", 1, <<TripleFinger, TripleFinger>>, 2, FALSE, FALSE)}

ParseDevices ==
    {Device(sh, 0) : sh \in ParseShapes \cup WideShapes} \cup
    {Device([sh EXCEPT !.drop = {u}, !.scope = w], 0) :
        sh \in ParseShapes, u \in DropUsages, w \in {"first", "all"}} \cup
    {Device([sh EXCEPT !.open = TRUE], 0) : sh \in ParseShapes} \cup
    {Device([sh EXCEPT !.max = n], 0) : sh \in ParseShapes, n \in MaxVals} \cup
    {Device([sh EXCEPT !.thqa = TRUE, !.thqa_at = w], 0) :
        sh \in ParseShapes, w \in CertPlaces} \cup
    {Device([sh EXCEPT !.max_at = w], 0) :
        sh \in ParseShapes, w \in {"relative", "outside"}} \cup
    {Device([sh EXCEPT !.cfg = c, !.late = TRUE], 0) :
        sh \in ParseShapes, c \in BOOLEAN} \cup
    {Device([sh EXCEPT !.alien_usage = u, !.alien_rid = i], 0) :
        sh \in ParseShapes, u \in AlienUsages, i \in AlienIds} \cup
    {Device([sh EXCEPT !.frid = 0], 0) : sh \in ParseShapes}

\* The item streams wmt_hid_report_size is run on: up to MaxItems input and
\* feature items of 3 bits, once or twice, at bit 0 or 13, in reports 1 and 2
MaxItems == 2       \* longest item stream of SizeStreams

SizeKinds == {"input", "feature"}

SizeItems ==
    {[Token(k, "HUD_OTHER", i, TRUE, pos, 3, 1) EXCEPT !.loc.count = n] :
        k \in SizeKinds, i \in ReportIds, pos \in {0, 13}, n \in {1, 2}}

SizeStreams ==
    UNION {[1 .. n -> SizeItems] : n \in 0 .. MaxItems}

\* Values the contact count maximum feature report holds: none, within the
\* slot capacity, and beyond it
FeatVals == {0, 1, 2, MAX_MT_SLOTS, MAX_MT_SLOTS + 1, 255}

\* The devices attach is run on: a touch screen, a touch pad with a
\* configuration collection, and a touch screen with more finger
\* collections than slots, each with every contact count maximum of
\* MaxVals in its descriptor and every value of FeatVals in its firmware;
\* and the touch pad of LongModeShape
AttachShapes ==
    {Shape("HUD_TOUCHSCREEN", 1, <<BasicFinger>>, 0, FALSE, FALSE),
     Shape("HUD_TOUCHPAD", 1, <<HoverFinger, HoverFinger>>, 0, TRUE, TRUE),
     Shape("HUD_TOUCHSCREEN", 1,
           <<BasicFinger>> \o Repeated(<<"HUD_TIP_SWITCH">>, MAX_MT_SLOTS), 0,
           FALSE, FALSE)}

\* A touch pad whose surface switch is the byte after the first WMT_BSIZE
\* bytes of the input mode report: the report is one byte longer than sc->buf
LongModeShape ==
    [Shape("HUD_TOUCHPAD", 1, <<HoverFinger, HoverFinger>>, 0, TRUE, TRUE)
        EXCEPT !.switch_pos = 8 * WMT_BSIZE]

AttachDevices ==
    {Device([sh EXCEPT !.max = n], v) :
        sh \in AttachShapes, n \in MaxVals, v \in FeatVals} \cup
    {Device(LongModeShape, 0)}

\* Values the field of a channel takes in the reports
FieldDom(u) ==
    CASE u \in {WMT_TIP_SWITCH, WMT_IN_RANGE, WMT_CONFIDENCE} -> {0, 1}
      [] u = WMT_CONTACTID -> IdVals
      [] u = WMT_WIDTH -> WidthVals
      [] u = WMT_HEIGHT -> HeightVals
      [] u = WMT_PRESSURE -> {7}
      [] OTHER -> {3}

\* The values of the field of channel u of contact cont, when the report
\* has such a field
ChanDom(s, cont, u) == IF Loc(s, cont, u).size > 0 THEN FieldDom(u) ELSE {0}

\* The field values of one contact of a report, by channel
ContactVals(s, cont) ==
    [tip : ChanDom(s, cont, WMT_TIP_SWITCH), id : ChanDom(s, cont, WMT_CONTACTID),
     rng : ChanDom(s, cont, WMT_IN_RANGE), conf : ChanDom(s, cont, WMT_CONFIDENCE),
     w : ChanDom(s, cont, WMT_WIDTH), h : ChanDom(s, cont, WMT_HEIGHT),
     x : ChanDom(s, cont, WMT_X), y : ChanDom(s, cont, WMT_Y),
     p : ChanDom(s, cont, WMT_PRESSURE),
     tx : ChanDom(s, cont, WMT_TOOL_X), ty : ChanDom(s, cont, WMT_TOOL_Y)]

Chan(c, u) ==
    CASE u = WMT_TIP_SWITCH -> c.tip
      [] u = WMT_CONTACTID -> c.id
      [] u = WMT_IN_RANGE -> c.rng
      [] u = WMT_CONFIDENCE -> c.conf
      [] u = WMT_WIDTH -> c.w
      [] u = WMT_HEIGHT -> c.h
      [] u = WMT_X -> c.x
      [] u = WMT_Y -> c.y
      [] u = WMT_PRESSURE -> c.p
      [] u = WMT_TOOL_X -> c.tx
      [] u = WMT_TOOL_Y -> c.ty
      [] OTHER -> 0

\* The bit positions of an input report the softc has a location for
Positions(s) == {s.cont_count_loc.pos} \cup {s.locs[p].pos : p \in DOMAIN s.locs}

\* The report buffer of a device that puts contact count cc and the contacts
\* conts (a sequence, contact 0 first) where its descriptor says
Buf(s, cc, conts) ==
    [pos \in Positions(s) |->
        IF pos = s.cont_count_loc.pos THEN cc
        ELSE LET p == CHOOSE q \in DOMAIN s.locs : s.locs[q].pos = pos
             IN  Chan(conts[p[1] + 1], p[2])]

\* The contact counts device d reports: up to its contact count maximum
Counts(d) == 0 .. Min(MaxCount, d.shape.max)

\* The input reports the transport delivers to the driver of device d: the
\* touch reports of the device, and a report of every other report id (its
\* contact count and every field 1).
TouchReports(s, d) ==
    {[id |-> s.report_id, buf |-> Buf(s, cc, <<c0, c1>>)] :
        cc \in Counts(d), c0 \in ContactVals(s, 0), c1 \in ContactVals(s, 1)}

ForeignReports(s) ==
    {[id |-> i, buf |-> [pos \in Positions(s) |-> 1]] : i \in ReportIds \ {s.report_id}}

\* The outcomes of the transfers of attach: whether the contact count
\* maximum is read, the results of the read and of the write of the input
\* mode report (0 or an error), whether evdev_register_mtx succeeds
AttachIo ==
    [cm_ok : BOOLEAN, im_read : {0, ENXIO}, im_write : {0, ENXIO, EINVAL},
     reg_ok : BOOLEAN]

---------------------------------------------------------------------------
(* The driver: probe, attach, then one imt_intr call per input report      *)

Init ==
    /\ dev \in DecoderDevices
    /\ phase = "probe"
    /\ sc = ZeroSoftc
    /\ ev = NoEvdev
    /\ last = NoObs
    /\ fr = NoFrame
    /\ prev = NoTouch
    /\ pr = [probe |-> NoParse, attach |-> NoParse]
    /\ at = NoAttach
    /\ sz = NoSize

\* imt_probe
Probe ==
    /\ phase = "probe"
    /\ \E r \in {wmt_hid_parse(ZeroSoftc, Build(dev.shape), TRUE)} :
           /\ pr' = [pr EXCEPT !.probe = ParseObs(r)]
           /\ phase' = IF r.type # 0 THEN "attach" ELSE "rejected"
    /\ UNCHANGED <<dev, sc, ev, last, fr, prev, at, sz>>

\* imt_attach
Attach ==
    /\ phase = "attach"
    /\ \E io \in AttachIo :
         \E a \in {imt_attach(sc, Build(dev.shape), dev.fw_max, io)} :
             /\ sc' = a.sc
             /\ ev' = a.ev
             /\ pr' = [pr EXCEPT !.attach = ParseObs(a.parse)]
             /\ at' = AttachObs(a)
             /\ phase' = IF a.error = 0 THEN "run" ELSE "detached"
    /\ UNCHANGED <<dev, last, fr, prev, sz>>

\* The frame the call belongs to: a report with a contact count opens a
\* frame, reports without one continue it until all its contacts are seen.
NextFrame(f, obs) ==
    IF ~obs.accepted THEN f
    ELSE IF obs.cc # 0
         THEN [live |-> TRUE, n |-> obs.cc, calls |-> 1, done |-> Len(obs.conts)]
         ELSE IF f.live /\ f.done < f.n
              THEN [f EXCEPT !.calls = @ + 1, !.done = @ + Len(obs.conts)]
              ELSE NoFrame

\* imt_intr, called by the transport with one input report
Intr ==
    /\ phase = "run"
    /\ \E r \in TouchReports(sc, dev) \cup ForeignReports(sc) :
         \E c \in {imt_intr(sc, ev, r)} :
             /\ sc' = c.sc
             /\ ev' = c.ev
             /\ last' = c.obs
             /\ fr' = NextFrame(fr, c.obs)
             /\ prev' = Touched(sc, last)
    /\ UNCHANGED <<dev, phase, pr, at, sz>>

Next == Probe \/ Attach \/ Intr

Spec == Init /\ [][Next]_vars

---------------------------------------------------------------------------
(* The decoder on a transport that keeps delivering: frames announced by   *)
(* a report with a contact count, continued by reports with contact count  *)
(* 0, with reports of other report ids in between                          *)

\* The devices that deliver their frames in hybrid mode
DrainDevices == {d \in DecoderDevices : d.shape.max = MaxCount}

\* The values of contact cont of a frame report: the contact carries its
\* index as contact id when the report has the field
FrameVals(s, cont) ==
    {c \in ContactVals(s, cont) :
        c.id = IF Loc(s, cont, WMT_CONTACTID).size > 0 THEN cont ELSE 0}

\* The reports of the device's report id with a contact count of counts
FrameReports(s, counts) ==
    {[id |-> s.report_id, buf |-> Buf(s, cc, <<c0, c1>>)] :
        cc \in counts, c0 \in FrameVals(s, 0), c1 \in FrameVals(s, 1)}

InitDrain ==
    /\ dev \in DrainDevices
    /\ phase = "probe"
    /\ sc = ZeroSoftc
    /\ ev = NoEvdev
    /\ last = NoObs
    /\ fr = NoFrame
    /\ prev = NoTouch
    /\ pr = [probe |-> NoParse, attach |-> NoParse]
    /\ at = NoAttach
    /\ sz = NoSize

\* imt_intr, called by the transport with one report of reports
Deliver(reports) ==
    /\ phase = "run"
    /\ \E r \in reports :
         \E c \in {imt_intr(sc, ev, r)} :
             /\ sc' = c.sc
             /\ ev' = c.ev
             /\ last' = c.obs
             /\ fr' = NextFrame(fr, c.obs)
             /\ prev' = Touched(sc, last)
    /\ UNCHANGED <<dev, phase, pr, at, sz>>

\* A report that announces the contacts of a frame, a report with contact
\* count 0, and a report of another report id
Announce == Deliver(FrameReports(sc, 1 .. MaxCount))
Continue == Deliver(FrameReports(sc, {0}))
Foreign == Deliver(ForeignReports(sc))

NextDrain == Probe \/ Attach \/ Announce \/ Continue \/ Foreign

\* Fair delivery: while a report with contact count 0 would change the
\* state of the driver, the transport delivers one in the end.
SpecDrain == InitDrain /\ [][NextDrain]_vars /\ WF_vars(Continue)

---------------------------------------------------------------------------
(* imt_attach on its own, followed by further refinements of the slot      *)
(* range                                                                   *)

InitAttach ==
    /\ dev \in AttachDevices
    /\ phase = "probe"
    /\ sc = ZeroSoftc
    /\ ev = NoEvdev
    /\ last = NoObs
    /\ fr = NoFrame
    /\ prev = NoTouch
    /\ pr = [probe |-> NoParse, attach |-> NoParse]
    /\ at = NoAttach
    /\ sz = NoSize

\* "Fetch and parse Contact count maximum feature report" once more, the
\* report holding any value of FeatVals
Refine ==
    /\ phase = "run"
    /\ \E io \in {i \in AttachIo : i.im_read = 0 /\ i.im_write = 0 /\ i.reg_ok},
          v \in FeatVals :
         \E t \in {ContMaxRefine(sc, io, v)} :
             /\ sc' = t
             /\ at' = [at EXCEPT !.refine = RefineObs(sc, t, io, v)]
    /\ UNCHANGED <<dev, phase, ev, last, fr, prev, pr, sz>>

NextAttach == Probe \/ Attach \/ Refine

SpecAttach == InitAttach /\ [][NextAttach]_vars

---------------------------------------------------------------------------
(* wmt_hid_report_size on its own: calls on an item stream that is         *)
(* permuted, and gains and loses items, between them                       *)

InitSize ==
    /\ dev \in {[tokens |-> d] : d \in SizeStreams}
    /\ phase = "size"
    /\ sc = ZeroSoftc
    /\ ev = NoEvdev
    /\ last = NoObs
    /\ fr = NoFrame
    /\ prev = NoTouch
    /\ pr = [probe |-> NoParse, attach |-> NoParse]
    /\ at = NoAttach
    /\ sz = NoSize

\* The item is not one the last call asked for
NonMatching(t) == t.kind # sz.k \/ t.report_ID # sz.id

\* The call wmt_hid_report_size(d, k, id) after the stream became d
SizeAgain(d, edit) ==
    /\ dev' = [tokens |-> d]
    /\ sz' = [sz EXCEPT !.size = wmt_hid_report_size(d, sz.k, sz.id),
                        !.before = sz.size, !.edit = edit]

\* wmt_hid_report_size(d, k, id), for any kind and report id
SizeCall ==
    /\ phase = "size"
    /\ \E k \in SizeKinds, id \in ReportIds :
          sz' = [called |-> TRUE, k |-> k, id |-> id,
                 size |-> wmt_hid_report_size(dev.tokens, k, id),
                 before |-> sz.size,
                 edit |-> IF sz.called /\ sz.k = k /\ sz.id = id
                          THEN "repeat" ELSE "none"]
    /\ UNCHANGED <<dev, phase, sc, ev, last, fr, prev, pr, at>>

\* The same call after two neighbouring items changed places
SizePermute ==
    /\ phase = "size" /\ sz.called
    /\ \E i \in 1 .. Len(dev.tokens) - 1 :
          SizeAgain([j \in DOMAIN dev.tokens |->
                        IF j = i THEN dev.tokens[i + 1]
                        ELSE IF j = i + 1 THEN dev.tokens[i]
                        ELSE dev.tokens[j]], "permute")
    /\ UNCHANGED <<phase, sc, ev, last, fr, prev, pr, at>>

\* The same call after the stream gained an item of another kind or report
SizeAdd ==
    /\ phase = "size" /\ sz.called
    /\ Len(dev.tokens) < MaxItems
    /\ \E t \in {u \in SizeItems : NonMatching(u)}, i \in 0 .. Len(dev.tokens) :
          SizeAgain(SubSeq(dev.tokens, 1, i) \o <<t>> \o
                    SubSeq(dev.tokens, i + 1, Len(dev.tokens)), "add")
    /\ UNCHANGED <<phase, sc, ev, last, fr, prev, pr, at>>

\* The same call after the stream lost an item of another kind or report
SizeRemove ==
    /\ phase = "size" /\ sz.called
    /\ \E i \in {j \in DOMAIN dev.tokens : NonMatching(dev.tokens[j])} :
          SizeAgain(SubSeq(dev.tokens, 1, i - 1) \o
                    SubSeq(dev.tokens, i + 1, Len(dev.tokens)), "remove")
    /\ UNCHANGED <<phase, sc, ev, last, fr, prev, pr, at>>

NextSize == SizeCall \/ SizePermute \/ SizeAdd \/ SizeRemove

SpecSize == InitSize /\ [][NextSize]_vars

---------------------------------------------------------------------------
(* wmt_hid_parse on its own, in both modes                                 *)

InitParse ==
    /\ dev \in ParseDevices
    /\ phase = "parse"
    /\ sc = ZeroSoftc
    /\ ev = NoEvdev
    /\ last = NoObs
    /\ fr = NoFrame
    /\ prev = NoTouch
    /\ pr = [probe |-> NoParse, attach |-> NoParse]
    /\ at = NoAttach
    /\ sz = NoSize

\* wmt_hid_parse(NULL, d_ptr, d_len)
ParseProbe ==
    /\ phase = "parse"
    /\ ~pr.probe.called
    /\ \E r \in {wmt_hid_parse(ZeroSoftc, Build(dev.shape), TRUE)} :
           pr' = [pr EXCEPT !.probe = ParseObs(r)]
    /\ UNCHANGED <<dev, phase, sc, ev, last, fr, prev, at, sz>>

\* wmt_hid_parse(sc, d_ptr, d_len) on a zeroed softc
ParseAttach ==
    /\ phase = "parse"
    /\ ~pr.attach.called
    /\ \E r \in {wmt_hid_parse(ZeroSoftc, Build(dev.shape), FALSE)} :
           /\ pr' = [pr EXCEPT !.attach = ParseObs(r)]
           /\ sc' = [r.sc EXCEPT !.type = r.type]
    /\ UNCHANGED <<dev, phase, ev, last, fr, prev, at, sz>>

NextParse == ParseProbe \/ ParseAttach

SpecParse == InitParse /\ [][NextParse]_vars

---------------------------------------------------------------------------
(* Properties of imt_intr                                                  *)

\* The counter a call works with: the report's contact count when it is not
\* zero, else the counter the previous call left
Remaining(o) == IF o.cc # 0 THEN o.cc ELSE o.before

CeilDiv(a, b) == (a + b - 1) \div b

\* The values of the events of a code
EventValues(events, code) ==
    {events[i][2] : i \in {j \in DOMAIN events : events[j][1] = code}}

\* The contacts the last call processed, with and without a slot
Processed == {last.conts[i] : i \in DOMAIN last.conts}
Resolved == {c \in Processed : c.slot # -1}

\* The liveness of a contact as its decoded fields tell it
LiveData(c) ==
    c.data[WMT_TIP_SWITCH] # 0 /\
    (WMT_CONFIDENCE \notin sc.caps \/ c.data[WMT_CONFIDENCE] # 0)

\* The contact was reported as touching: its tracking id was pushed
TreatedActive(c) ==
    \E i \in DOMAIN c.events :
        c.events[i] = <<"ABS_MT_TRACKING_ID", c.data[WMT_CONTACTID]>>

\* The channels of the capability set that have an event code
Coded == {u \in sc.caps : wmt_hid_map[u].code # "WMT_NO_CODE"}

\* C1: in a frame opened by a report with contact count N > 0 and continued
\* by reports with contact count 0, the call that brings the number of
\* contacts processed to N - the ceil(N/P)-th - ends with a sync, and no
\* earlier call of the frame does.
C1_HybridSync ==
    (fr.live /\ last.accepted) =>
        /\ fr.done = Min(fr.n, fr.calls * sc.nconts_per_report)
        /\ last.sync <=> (fr.done = fr.n)
        /\ (fr.done = fr.n) => fr.calls = CeilDiv(fr.n, sc.nconts_per_report)

\* Counts [3,0,0] with one contact per report: the third call syncs
C1_Witness ==
    /\ fr.live /\ fr.n = 3 /\ fr.calls = 3 /\ fr.done = 3
    /\ sc.nconts_per_report = 1
    /\ last.accepted /\ last.cc = 0 /\ last.sync

\* C2: after an accepted report with contact count c, the counter r before
\* it and P contacts per report, the counter is r' - min(r', P) with r' = c
\* if c # 0 else r; a zero count never raises it, leaves it 0 when Idle, and
\* it is never negative.
C2_CounterRule ==
    last.accepted =>
        /\ sc.nconts_todo =
              Remaining(last) - Min(Remaining(last), sc.nconts_per_report)
        /\ sc.nconts_todo >= 0
        /\ last.cc = 0 => sc.nconts_todo <= last.before
        /\ (last.cc = 0 /\ last.before = 0) => sc.nconts_todo = 0

\* A zero-count report in the middle of a frame: the counter goes 2 -> 1
C2_Witness ==
    /\ last.accepted /\ last.cc = 0 /\ last.before = 2
    /\ sc.nconts_todo = 1

\* C3 as stated: a call syncs only if the counter was > 0 during the call;
\* a report accepted while Idle with a zero contact count gives no sync and
\* no other event.
C3_SyncOnlyWhenDrained ==
    last.accepted =>
        /\ last.sync => Remaining(last) > 0
        /\ (last.before = 0 /\ last.cc = 0) => (~last.sync /\ last.conts = <<>>)

\* C3 (amended): an accepted call syncs iff the counter is 0 at its end, that
\* is iff the contacts to do fit the report; on the Draining -> Idle
\* transition, and also for a zero-count report accepted while Idle, which
\* gives the sync and no other event.
C3_SyncWhenCounterZero ==
    last.accepted =>
        /\ last.sync <=> (Remaining(last) <= sc.nconts_per_report)
        /\ last.sync <=> (sc.nconts_todo = 0)
        /\ (last.before = 0 /\ last.cc = 0) => (last.sync /\ last.conts = <<>>)

\* A zero-count report accepted while Idle: no contact, a sync
C3_Witness ==
    /\ last.accepted /\ last.before = 0 /\ last.cc = 0
    /\ last.conts = <<>> /\ last.sync

C5_ReleaseSequence ==
    \A c \in Resolved :
        ~LiveData(c) =>
            c.events = <<<<"ABS_MT_SLOT", c.slot>>, <<"ABS_MT_TRACKING_ID", -1>>>>

\* A contact with tip switch 0 released from slot 1
C5_Witness ==
    \E c \in Resolved :
        /\ c.data[WMT_TIP_SWITCH] = 0 /\ c.slot = 1
        /\ Len(c.events) = 2
        /\ ev.tracking[1] = -1

\* C6: a processed contact is treated as active iff its tip switch is not 0
\* and the confidence is not in the capability set or not 0; for an active
\* contact one event is emitted per channel of the capability set that has
\* an event code (none for the confidence), the first the slot.
C6_ActiveEmission ==
    \A c \in Resolved :
        /\ TreatedActive(c) <=> LiveData(c)
        /\ LiveData(c) =>
              /\ Len(c.events) = Cardinality(Coded)
              /\ {c.events[i][1] : i \in DOMAIN c.events} =
                     {wmt_hid_map[u].code : u \in Coded}
              /\ "WMT_NO_CODE" \notin {c.events[i][1] : i \in DOMAIN c.events}
              /\ c.events[1] = <<"ABS_MT_SLOT", c.slot>>

\* A touching contact of low confidence is released while another contact
\* is tracked as touching
C6_Witness ==
    /\ WMT_CONFIDENCE \in sc.caps
    /\ \E c \in Resolved :
          /\ c.data[WMT_TIP_SWITCH] = 1 /\ c.data[WMT_CONFIDENCE] = 0
          /\ ~TreatedActive(c)
    /\ \E x \in SlotsOf(ev) : ev.tracking[x] # -1

\* C7: for an active contact with decoded width w and height h, hw = w >> 1
\* and hh = h >> 1, the orientation emitted is 1 iff hw > hh, the major axis
\* max(hw, hh) and the minor axis min(hw, hh).
C7_Orientation ==
    \A c \in Resolved :
        LiveData(c) =>
            LET hw == c.data[WMT_WIDTH] \div 2
                hh == c.data[WMT_HEIGHT] \div 2
            IN  /\ WMT_ORIENTATION \in sc.caps =>
                      EventValues(c.events, "ABS_MT_ORIENTATION") =
                          {IF hw > hh THEN 1 ELSE 0}
                /\ WMT_WIDTH \in sc.caps =>
                      EventValues(c.events, "ABS_MT_TOUCH_MAJOR") = {Max(hw, hh)}
                /\ WMT_HEIGHT \in sc.caps =>
                      EventValues(c.events, "ABS_MT_TOUCH_MINOR") = {Min(hw, hh)}

\* Width 40 and height 10 give orientation 1, major 20, minor 5
C7_Witness ==
    \E c \in Resolved :
        /\ LiveData(c)
        /\ c.data[WMT_WIDTH] = 40 /\ c.data[WMT_HEIGHT] = 10
        /\ EventValues(c.events, "ABS_MT_ORIENTATION") = {1}
        /\ EventValues(c.events, "ABS_MT_TOUCH_MAJOR") = {20}
        /\ EventValues(c.events, "ABS_MT_TOUCH_MINOR") = {5}

\* C8: a report whose id is not the report id of the softc changes neither
\* the softc (the counter) nor the sink: no contact is looked up, no event
\* and no sync is emitted, and the frame in progress goes on as before.
C8_ForeignDiscarded ==
    [][(phase = "run" /\ last'.id # sc.report_id) =>
        /\ sc' = sc
        /\ ev' = ev
        /\ fr' = fr
        /\ last'.conts = <<>>
        /\ ~last'.sync]_vars

\* A foreign report discarded in the middle of a frame
C8_Witness ==
    /\ last.called /\ ~last.accepted /\ last.id # sc.report_id
    /\ sc.nconts_todo > 0 /\ fr.live

\* C9: when the allocator gives no slot for a contact, no event is emitted
\* for it, the contacts after it in the report are processed, the counter is
\* decremented by all the contacts of the report, and the sync is sent when
\* the counter is 0.
C9_OverflowLocal ==
    (last.accepted /\ Processed # Resolved) =>
        /\ Len(last.conts) = Min(Remaining(last), sc.nconts_per_report)
        /\ \A i \in DOMAIN last.conts :
              /\ last.conts[i].cont = i - 1
              /\ last.conts[i].slot = -1 => last.conts[i].events = <<>>
        /\ sc.nconts_todo = Remaining(last) - Len(last.conts)
        /\ last.sync <=> (sc.nconts_todo = 0)

\* The first contact of a report overflows, the second is reported, and the
\* call syncs
C9_Witness ==
    /\ last.accepted /\ Len(last.conts) = 2
    /\ last.conts[1].slot = -1
    /\ last.conts[2].slot # -1 /\ last.conts[2].events # <<>>
    /\ last.sync

---------------------------------------------------------------------------
(* Properties of wmt_hid_parse                                             *)

RequiredChannels == {u \in Usages : wmt_hid_map[u].required}
RequiredUsages == {wmt_hid_map[u].usage : u \in RequiredChannels}

\* The usages of the fields of the first finger collection of a descriptor,
\* and the number of finger collections it closes
FirstFingerUsages(sh) ==
    IF sh.fingers = <<>> THEN {}
    ELSE {sh.fingers[1][j] : j \in DOMAIN sh.fingers[1]} \ sh.drop

ClosedFingers(sh) == Len(sh.fingers) - (IF sh.open THEN 1 ELSE 0)

\* C10: wmt_hid_parse, with and without a softc, returns a collection type
\* other than 0 only if the input pass found the contact count and the scan
\* time, closed at least one finger collection, and has every required
\* channel (tip switch, X, Y, contact id) in the capabilities taken from
\* contact 0; a descriptor with one required usage left out of its first
\* finger collection gets 0.
C10_Validation ==
    \A m \in {"probe", "attach"} :
        /\ (pr[m].called /\ pr[m].type # 0) =>
              /\ pr[m].input_pass
              /\ pr[m].cont_count_found /\ pr[m].scan_time_found
              /\ pr[m].cont >= 1
              /\ RequiredChannels \subseteq pr[m].caps
              /\ {"HUD_CONTACTCOUNT", "HUD_SCAN_TIME"} \cap dev.shape.drop = {}
              /\ ClosedFingers(dev.shape) >= 1
              /\ RequiredUsages \subseteq FirstFingerUsages(dev.shape)
        /\ (pr[m].called /\ RequiredUsages \cap dev.shape.drop # {}) =>
              pr[m].type = 0

\* A touch pad descriptor complete but for the Y of its first finger: both
\* calls find the counts and both fingers, and return 0
C10_Witness ==
    /\ dev.shape.drop = {"HUG_Y"} /\ dev.shape.scope = "first"
    /\ Len(dev.shape.fingers) = 2
    /\ pr.probe.called /\ pr.attach.called
    /\ pr.probe.type = 0 /\ pr.attach.type = 0
    /\ pr.attach.cont_count_found /\ pr.attach.scan_time_found
    /\ pr.attach.cont = 2
    /\ pr.attach.caps = {WMT_TIP_SWITCH, WMT_X, WMT_CONTACTID, WMT_IN_RANGE,
                         WMT_CONFIDENCE}

---------------------------------------------------------------------------
(* Properties of the feature pass and of the slot range                    *)

\* The descriptor has no absolute contact count maximum feature in its touch
\* collection: the item is left out, not absolute, or in a later collection
NoContactMax(sh) == "HUD_CONTACT_MAX" \in sh.drop \/ sh.max_at # "top"

\* C11: when the feature pass finds no absolute contact count maximum
\* feature inside a touch screen or touch pad collection, wmt_hid_parse
\* returns 0 without running the input pass, whatever the input items are:
\* no contact count, scan time, finger, capability or report id is seen,
\* and with a softc no location is recorded.
C11_FeatureGate ==
    \A m \in {"probe", "attach"} :
        (pr[m].called /\ NoContactMax(dev.shape)) =>
            /\ pr[m].type = 0
            /\ ~pr[m].input_pass
            /\ ~pr[m].cont_count_found /\ ~pr[m].scan_time_found
            /\ pr[m].cont = 0 /\ pr[m].caps = {} /\ pr[m].report_id = 0
            /\ sc.locs = <<>> /\ sc.cont_count_loc = ZeroLoc

\* A complete touch pad descriptor whose contact count maximum sits in a
\* later top-level collection: both calls return 0 before the input pass
C11_Witness ==
    /\ dev.shape.max_at = "outside" /\ dev.shape.type = "HUD_TOUCHPAD"
    /\ dev.shape.drop = {}
    /\ pr.probe.called /\ pr.attach.called
    /\ pr.probe.type = 0 /\ pr.attach.type = 0
    /\ ~pr.probe.input_pass /\ ~pr.attach.input_pass
    /\ sc.locs = <<>>

\* The slot maximum a descriptor asks for: its contact count maximum n, the
\* number f of its finger collections when it declares none, and never more
\* than the slot capacity
SlotMax(n, f) ==
    IF n >= 1 /\ n <= MAX_MT_SLOTS THEN n - 1
    ELSE IF n > MAX_MT_SLOTS THEN MAX_MT_SLOTS - 1
    ELSE Min(f, MAX_MT_SLOTS) - 1

\* C12: after wmt_hid_parse succeeded with a softc on a descriptor whose
\* contact count maximum feature declares logical maximum N and which has F
\* finger collections, the slot axis has minimum 0 and maximum N - 1 when
\* 1 <= N <= MAX_MT_SLOTS, MAX_MT_SLOTS - 1 when N is larger, and
\* min(F, MAX_MT_SLOTS) - 1 when N <= 0.
C12_SlotRange ==
    (pr.attach.called /\ pr.attach.type # 0) =>
        /\ pr.attach.cont = ClosedFingers(dev.shape)
        /\ sc.ai[WMT_SLOT].min = 0
        /\ sc.ai[WMT_SLOT].max = SlotMax(dev.shape.max, ClosedFingers(dev.shape))

\* A descriptor with no declared maximum and one finger collection more
\* than there are slots: the slot range ends at the last slot
C12_Witness ==
    /\ dev.shape.max = 0 /\ Len(dev.shape.fingers) = MAX_MT_SLOTS + 1
    /\ pr.attach.called /\ pr.attach.type # 0
    /\ pr.attach.cont = MAX_MT_SLOTS + 1
    /\ sc.ai[WMT_SLOT].max = MAX_MT_SLOTS - 1

\* C13: wmt_cont_max_parse decodes the value v of the contact count maximum
\* feature report and takes c = min(v, MAX_MT_SLOTS); the slot maximum
\* becomes c - 1 when c # 0 and c differs from the previous maximum plus 1,
\* and stays otherwise: a report holding 0 changes nothing, one above
\* MAX_MT_SLOTS gives MAX_MT_SLOTS - 1.  No other field of the softc
\* changes, and a report that could not be read changes nothing.
C13_Refinement ==
    at.refine.called =>
        LET c == Min(at.refine.v, MAX_MT_SLOTS)
        IN  /\ at.refine.kept
            /\ sc.ai[WMT_SLOT].max = at.refine.after
            /\ at.refine.applied =>
                  at.refine.after = IF c # 0 /\ c # at.refine.before + 1
                                    THEN c - 1 ELSE at.refine.before
            /\ ~at.refine.applied => at.refine.after = at.refine.before

\* A report holding 255 read on a device whose slot range ended at slot 1:
\* the range now ends at the last slot
C13_Witness ==
    /\ at.refine.called /\ at.refine.applied
    /\ at.refine.v = 255 /\ at.refine.before = 1
    /\ sc.ai[WMT_SLOT].max = MAX_MT_SLOTS - 1

\* C14: after wmt_hid_parse succeeded with a softc, and after any number of
\* contact count maximum reports of any value, read or not, the slot
\* maximum is at least 0 and at most MAX_MT_SLOTS - 1.
C14_SlotBound ==
    (pr.attach.called /\ pr.attach.type # 0) =>
        sc.ai[WMT_SLOT].max >= 0 /\ sc.ai[WMT_SLOT].max <= MAX_MT_SLOTS - 1

\* The device declares one contact and its firmware answers 0; a later
\* report raised the range to the last slot, and the report holding 2 that
\* followed brought it down to slot 1
C14_Witness ==
    /\ dev.shape.max = 1 /\ dev.fw_max = 0
    /\ phase = "run"
    /\ at.refine.applied /\ at.refine.v = 2
    /\ at.refine.before = MAX_MT_SLOTS - 1
    /\ sc.ai[WMT_SLOT].max = 1

\* C16: in the feature pass the configuration flag is set when a
\* configuration collection opens at depth 1 and cleared when it closes, so
\* an absolute input mode feature that follows the closed configuration
\* collection, in a later top-level collection, records neither its report
\* id nor its location: the softc keeps those of the item inside the
\* configuration collection, or none.
C16_ConfFlagCleared ==
    (pr.attach.called /\ pr.attach.type # 0 /\ dev.shape.late) =>
        IF dev.shape.cfg
        THEN /\ sc.input_mode_rid = dev.shape.frid + 2
             /\ sc.input_mode_loc.pos = 0
        ELSE /\ sc.input_mode_rid = 0
             /\ sc.input_mode_loc = ZeroLoc

\* C17 as stated: a THQA certificate feature records its report id
\* wherever it occurs inside the touch collection, at depth 1, 2 or deeper,
\* and never outside.
C17_CertAnyDepth ==
    (pr.attach.called /\ pr.attach.type # 0 /\ dev.shape.thqa) =>
        sc.thqa_cert_rid = IF dev.shape.thqa_at \in {"top", "finger", "deep"}
                           THEN dev.shape.frid + 1 ELSE 0

\* C17: a THQA certificate feature records its report id only when it
\* occurs directly inside the touch collection, at depth 1; inside a finger
\* collection (depth 2), deeper, or outside the touch collection it records
\* nothing, and neither does a descriptor without the feature.
C17_CertDepthOne ==
    (pr.attach.called /\ pr.attach.type # 0) =>
        /\ sc.thqa_cert_rid = IF dev.shape.thqa /\ dev.shape.thqa_at = "top"
                              THEN dev.shape.frid + 1 ELSE 0
        /\ sc.thqa_cert_rid = 0 => sc.thqa_cert_rlen = 0
        /\ sc.thqa_cert_rid # 0 => sc.thqa_cert_rlen = 1

\* A certificate inside the first finger collection of a descriptor that is
\* accepted: no certificate report id
C17_Witness ==
    /\ dev.shape.thqa /\ dev.shape.thqa_at = "finger"
    /\ pr.attach.called /\ pr.attach.type # 0
    /\ sc.thqa_cert_rid = 0 /\ sc.thqa_cert_rlen = 0

---------------------------------------------------------------------------
(* Properties of the input pass                                            *)

\* The absolute input items of a descriptor in stream order; Build puts all
\* of them inside the touch collection
AbsInputs(sh) == SelectSeq(Build(sh), LAMBDA t : t.kind = "input" /\ t.abs)

\* Some item of the usage carries report id r, at location loc if one is
\* asked for
Carries(toks, usage, r) ==
    \E i \in DOMAIN toks : toks[i].usage = usage /\ toks[i].report_ID = r

CarriesAt(toks, usage, r, loc) ==
    \E i \in DOMAIN toks :
        toks[i].usage = usage /\ toks[i].report_ID = r /\ toks[i].loc = loc

\* C18: the input pass pins the report id to that of the first absolute
\* input item inside the touch collection and never changes it; an input
\* item of another report id contributes nothing: the contact count
\* location, the scan time flag, the capabilities and the field locations
\* all come from items of the pinned report id.
C18_ReportIdPinned ==
    LET toks == AbsInputs(dev.shape)
        first == toks[1].report_ID
    IN  \A m \in {"probe", "attach"} :
          (pr[m].called /\ pr[m].input_pass /\ toks # <<>>) =>
            /\ pr[m].report_id = first
            /\ pr[m].cont_count_found => Carries(toks, "HUD_CONTACTCOUNT", first)
            /\ pr[m].scan_time_found => Carries(toks, "HUD_SCAN_TIME", first)
            /\ \A u \in pr[m].caps : Carries(toks, wmt_hid_map[u].usage, first)
            /\ m = "attach" =>
                  /\ sc.cont_count_loc # ZeroLoc =>
                        CarriesAt(toks, "HUD_CONTACTCOUNT", first, sc.cont_count_loc)
                  /\ \A q \in DOMAIN sc.locs :
                        CarriesAt(toks, wmt_hid_map[q[2]].usage, first, sc.locs[q])

\* The fields of usage g of finger c of a descriptor, by their index in the
\* finger collection, and the channel the field of index j binds: the
\* first field takes channel a, the second channel b, a later one none
Occurrences(sh, c, g) ==
    {j \in DOMAIN sh.fingers[c + 1] :
        /\ sh.fingers[c + 1][j] = g
        /\ g \notin (IF sh.scope = "all" \/ c = 0 THEN sh.drop ELSE {})}

Rank(occ, j) == Cardinality({i \in occ : i < j})

DualBound(sh, c, g, a, b) ==
    LET occ == Occurrences(sh, c, g)
    IN  /\ \A j \in occ :
              CASE Rank(occ, j) = 0 -> Loc(sc, c, a).pos = FieldPos(c, j) /\
                                       Loc(sc, c, a).size # 0
                [] Rank(occ, j) = 1 -> Loc(sc, c, b).pos = FieldPos(c, j) /\
                                       Loc(sc, c, b).size # 0
                [] OTHER -> \A q \in DOMAIN sc.locs :
                                sc.locs[q].pos # FieldPos(c, j)
        /\ Cardinality(occ) = 0 => Loc(sc, c, a) = ZeroLoc
        /\ Cardinality(occ) < 2 => Loc(sc, c, b) = ZeroLoc

\* C19: within a finger collection of contact c < MAX_MT_SLOTS the first X
\* item binds the X channel and the second the TOOL_X channel, and the same
\* for Y and TOOL_Y; neither is rejected, a location once recorded is not
\* overwritten, and a third item of the usage binds nothing.  The
\* capabilities, taken from contact 0 in both modes, hold X, TOOL_X, Y and
\* TOOL_Y accordingly.
C19_DualBinding ==
    (dev.shape.alien_usage = "NONE") =>
      /\ (pr.attach.called /\ pr.attach.input_pass) =>
            \A c \in 0 .. Min(Len(dev.shape.fingers), MAX_MT_SLOTS) - 1 :
                /\ DualBound(dev.shape, c, "HUG_X", WMT_X, WMT_TOOL_X)
                /\ DualBound(dev.shape, c, "HUG_Y", WMT_Y, WMT_TOOL_Y)
      /\ \A m \in {"probe", "attach"} :
            (pr[m].called /\ pr[m].input_pass) =>
                /\ WMT_X \in pr[m].caps <=>
                      Cardinality(Occurrences(dev.shape, 0, "HUG_X")) >= 1
                /\ WMT_TOOL_X \in pr[m].caps <=>
                      Cardinality(Occurrences(dev.shape, 0, "HUG_X")) >= 2
                /\ WMT_Y \in pr[m].caps <=>
                      Cardinality(Occurrences(dev.shape, 0, "HUG_Y")) >= 1
                /\ WMT_TOOL_Y \in pr[m].caps <=>
                      Cardinality(Occurrences(dev.shape, 0, "HUG_Y")) >= 2

\* Two finger collections with X, Y, X, Y, X, Y as fields 3 .. 8: in the
\* second one the third and fourth fields are X and Y, the fifth and sixth
\* TOOL_X and TOOL_Y, and no location holds the seventh or the eighth
C19_Witness ==
    /\ dev.shape.fingers = <<TripleFinger, TripleFinger>>
    /\ pr.attach.called /\ pr.attach.type # 0
    /\ Loc(sc, 1, WMT_X).pos = FieldPos(1, 3)
    /\ Loc(sc, 1, WMT_Y).pos = FieldPos(1, 4)
    /\ Loc(sc, 1, WMT_TOOL_X).pos = FieldPos(1, 5)
    /\ Loc(sc, 1, WMT_TOOL_Y).pos = FieldPos(1, 6)
    /\ \A q \in DOMAIN sc.locs :
          sc.locs[q].pos \notin {FieldPos(1, 7), FieldPos(1, 8)}
    /\ {WMT_X, WMT_Y, WMT_TOOL_X, WMT_TOOL_Y} \subseteq pr.attach.caps

---------------------------------------------------------------------------
(* Properties of imt_set_input_mode                                        *)

\* C20: imt_set_input_mode is a best-effort read-modify-write.  When the
\* read fails the buffer is zero over the length of the input mode report;
\* in either case the mode value is put at the input mode location and the
\* report is written; the result is the result of the write.  In
\* imt_attach a failed write ends the attach with an error before
\* iichid_intr_setup and before the evdev device is registered; a failed
\* read alone does not: the attach goes on to both.
C20_InputMode ==
    (at.called /\ at.mode.called) =>
        /\ at.mode.written
        /\ DOMAIN at.mode.buf = FeatureBytes(sc.input_mode_rlen)
        /\ at.mode.buf[sc.input_mode_loc.pos] = IMT_INPUT_MODE_MT_TOUCHPAD
        /\ at.mode.read # 0 =>
              \A q \in DOMAIN at.mode.buf :
                  q # sc.input_mode_loc.pos => at.mode.buf[q] = 0
        /\ at.mode.error = at.mode.write
        /\ at.mode.write # 0 =>
              /\ at.error # 0 /\ phase = "detached"
              /\ ~at.intr_setup /\ ~at.register /\ ev = NoEvdev
        /\ at.mode.write = 0 => at.intr_setup /\ at.register

\* A touch pad whose input mode report could not be read but was written:
\* the report written holds the mode and zero, and the device runs
C20_Witness ==
    /\ at.called /\ at.mode.called
    /\ at.mode.read # 0 /\ at.mode.write = 0
    /\ sc.input_mode_rlen = 2
    /\ at.mode.buf[0] = IMT_INPUT_MODE_MT_TOUCHPAD /\ at.mode.buf[8] = 0
    /\ at.error = 0 /\ phase = "run" /\ ev # NoEvdev

---------------------------------------------------------------------------
(* Properties of wmt_hid_report_size                                       *)

\* The items of kind k and report id r of stream d, as a set
Matching(d, k, r) ==
    {t \in {d[i] : i \in DOMAIN d} : t.kind = k /\ t.report_ID = r}

\* The bytes between the lowest start and the highest end of the items
SpanBytes(items) ==
    LET starts == {t.loc.pos : t \in items}
        ends == {t.loc.pos + t.loc.size * t.loc.count : t \in items}
        lo == CHOOSE x \in starts : \A y \in starts : x <= y
        hi == CHOOSE x \in ends : \A y \in ends : x >= y
    IN  IF items = {} THEN 0 ELSE CeilDiv(hi - lo, 8)

\* C15: for an item stream, a kind k and a report id r, wmt_hid_report_size
\* returns ceil((max_end - min_start) / 8), min_start the lowest position
\* and max_end the highest position + size * count of the items of kind k
\* and report id r; it returns 0 when no item matches, as on the empty
\* stream, and never a negative value; the result is a function of the set
\* of matching items: it stays when the stream is permuted, when an item
\* that does not match is added or removed, and when the call is repeated.
C15_ReportSize ==
    sz.called =>
        /\ sz.size = SpanBytes(Matching(dev.tokens, sz.k, sz.id))
        /\ sz.size >= 0
        /\ Matching(dev.tokens, sz.k, sz.id) = {} => sz.size = 0
        /\ sz.edit # "none" => sz.size = sz.before

\* Two matching items spanning bits 0 .. 19, in this order after a
\* permutation: 3 bytes before and after
C15_Witness ==
    /\ sz.called /\ sz.edit = "permute"
    /\ Len(dev.tokens) = 2
    /\ dev.tokens[1].loc.pos = 13 /\ dev.tokens[1].loc.count = 2
    /\ dev.tokens[2].loc.pos = 0
    /\ Matching(dev.tokens, sz.k, sz.id) = {dev.tokens[1], dev.tokens[2]}
    /\ sz.size = 3 /\ sz.before = 3

---------------------------------------------------------------------------
(* Properties of a rejected descriptor                                     *)

\* C21: when wmt_hid_parse with a softc rejects a descriptor (returns 0),
\* the softc is as it was before the call: the field locations, the axis
\* info, the contact count, contact count maximum and input mode locations,
\* the capabilities, the report id and the report sizes are all untouched.
C21_NoPartialProfile ==
    (pr.attach.called /\ pr.attach.type = 0) => sc = ZeroSoftc

\* C22: after wmt_hid_parse succeeded with a softc, the number of contacts
\* per report it stored is at most MAX_MT_SLOTS, so for a report of any
\* contact count the last contact index imt_intr reads sc->locs[][] with is
\* below MAX_MT_SLOTS, also when the descriptor has more finger collections
\* than that.
C22_SlotCapacity ==
    (pr.attach.called /\ pr.attach.type # 0) =>
        /\ sc.nconts_per_report <= MAX_MT_SLOTS
        /\ \A cc \in 1 .. FieldMax("HUD_CONTACTCOUNT") :
              ContsInReport(cc, sc.nconts_per_report) - 1 < MAX_MT_SLOTS

---------------------------------------------------------------------------
(* Properties of the scratch buffer                                        *)

\* C23: imt_set_input_mode returns EINVAL, and transfers nothing, when the
\* length of the input mode report is 0 or more than WMT_BSIZE, the size of
\* sc->buf; the report it reads, zeroes or writes is never longer than
\* WMT_BSIZE bytes.
C23_ScratchBound ==
    (at.called /\ at.mode.called) =>
        /\ (sc.input_mode_rlen = 0 \/ sc.input_mode_rlen > WMT_BSIZE) =>
              at.mode.error = EINVAL /\ ~at.mode.written
        /\ Cardinality(DOMAIN at.mode.buf) <= WMT_BSIZE

---------------------------------------------------------------------------
(* Properties of the hybrid-delivery counter under fair delivery           *)

\* What C24 says of every call: a running device has at least one contact
\* per report, and an accepted report with contact count 0 that finds the
\* counter above 0 leaves it smaller
DrainStep ==
    /\ phase = "run" => sc.nconts_per_report >= 1
    /\ (last.accepted /\ last.cc = 0 /\ last.before > 0) =>
          sc.nconts_todo < last.before

\* The decoder is back at counter 0 and the call that brought it there
\* sent the sync
Drained == sc.nconts_todo = 0 /\ last.accepted /\ last.sync

\* A report with a contact count was accepted last: a frame was opened
Announced == last.accepted /\ last.cc # 0

\* C24 as stated: once the counter is above 0, reports of the device's
\* report id that keep arriving bring it to 0 and a sync is sent, whatever
\* their contact counts are.
C24_DrainingEnds ==
    /\ []DrainStep
    /\ (sc.nconts_todo > 0) ~> Drained

\* C24 (amended): every accepted report with contact count 0 lowers a
\* counter that is above 0; when reports with contact count 0 keep arriving
\* and, from some point on, no report with another contact count is
\* accepted, the counter comes to 0 and a sync is sent.  (A device that goes
\* on announcing contact counts above the contacts per report keeps the
\* decoder draining.)
C24_DrainEndsUnlessAnnounced ==
    /\ []DrainStep
    /\ ([]<>Announced) \/ ((sc.nconts_todo > 0) ~> Drained)

\* A frame of three contacts on the touch pad with two contacts per report:
\* the report with contact count 0 that follows finds the counter at 1,
\* brings it to 0 and syncs
C24_Witness ==
    /\ sc.nconts_per_report = 2
    /\ fr.live /\ fr.n = 3 /\ fr.calls = 2
    /\ last.accepted /\ last.cc = 0 /\ last.before = 1
    /\ sc.nconts_todo = 0 /\ last.sync

---------------------------------------------------------------------------
(* Properties of the two modes of wmt_hid_parse                            *)

\* C25: on the same descriptor wmt_hid_parse without a softc (imt_probe)
\* and with a zeroed softc (imt_attach) return the same value: both 0, or
\* both the same collection type; what probe accepts attach does not
\* reject.
C25_ProbeAttachAgree ==
    (pr.probe.called /\ pr.attach.called) =>
        /\ pr.probe.type = pr.attach.type
        /\ pr.probe.type \in {0, HUD_TOUCHSCREEN, HUD_TOUCHPAD}
        /\ pr.probe.type # 0 => sc.type = pr.probe.type

\* A touch screen with two fingers that have the X field twice: both calls
\* return the touch screen type, both find X and TOOL_X for contact 0, and
\* the call with the softc also recorded them for contact 1
C25_Witness ==
    /\ dev.shape.fingers = <<ShapeFinger, ShapeFinger>>
    /\ pr.probe.called /\ pr.attach.called
    /\ pr.probe.type = HUD_TOUCHSCREEN /\ pr.attach.type = HUD_TOUCHSCREEN
    /\ {WMT_X, WMT_TOOL_X} \subseteq pr.probe.caps \cap pr.attach.caps
    /\ Loc(sc, 1, WMT_X).size # 0 /\ Loc(sc, 1, WMT_TOOL_X).size # 0

---------------------------------------------------------------------------
(* Properties of the feature pass and the report id of its items           *)

\* C26: when the descriptor has an absolute contact count maximum feature
\* at depth 1 of its touch collection, wmt_hid_parse goes on to the input
\* pass, whatever the report id of the feature is, 0 included.
C26_FeaturePassProceeds ==
    \A m \in {"probe", "attach"} :
        (pr[m].called /\ ~NoContactMax(dev.shape)) => pr[m].input_pass

=============================================================================
